---- MODULE Spec2Model ----
(***************************************************************************)
(* Dodo payments integration of Ghost: PaymentsService (catalog            *)
(* reconciliation and checkout links), DodoAPI (provider client) and       *)
(* DodoWebhookController (webhook router and member projection).           *)
(*                                                                         *)
(* Every await of PaymentsService is one step of a process: a cache read,  *)
(* a provider call, or a cache write.  Provider ids are the positions of   *)
(* the artifacts in the provider's collections.                            *)
(***************************************************************************)
EXTENDS Integers, Sequences, FiniteSets, TLC

\* ------------------------------------------------------------ bounds
MaxProducts == 2
MaxPrices == 2
MaxCustomers == 2
MaxCoupons == 2
MaxCalls == 3      \* price resolution calls in one behaviour
MaxLinks == 2      \* checkout link calls in one behaviour
MaxDrift == 1
MaxTitle == 245       \* characters of the longest publication title      \* provider-side changes in one behaviour

\* ------------------------------------------------------------ values
NoId == 0       \* null / undefined where an id is expected
NoTier == "none"
NoVal == "none"

Procs == {1, 2}
TierIds == {"t1", "t2"}
Cadences == {"month", "year"}

\* The tiers of the publication (Tier: name, currency, prices, trial days, type).
TierData ==
  [t1 |-> [name |-> "Gold", currency |-> "USD", monthly |-> 5, yearly |-> 50,
           trialDays |-> 7, type |-> "paid"],
   t2 |-> [name |-> "Silver", currency |-> "usd", monthly |-> 3, yearly |-> 30,
           trialDays |-> 0, type |-> "paid"]]

OfferIds == {"o1", "o2", "o3"}
MemberIds == {"m1", "m2"}

\* The offers of the publication (Offer rows; dodo_coupon_id is filled lazily).
OfferData ==
  [o1 |-> [tier |-> "t1", type |-> "percent", amount |-> 20, duration |-> "forever",
           duration_in_months |-> 0, currency |-> NoVal, name |-> "Fifth off",
           dodo_coupon_id |-> NoId],
   o2 |-> [tier |-> "t1", type |-> "trial", amount |-> 14, duration |-> "trial",
           duration_in_months |-> 0, currency |-> NoVal, name |-> "Two weeks",
           dodo_coupon_id |-> NoId],
   o3 |-> [tier |-> "t2", type |-> "fixed", amount |-> 2, duration |-> "repeating",
           duration_in_months |-> 3, currency |-> "usd", name |-> "Two off",
           dodo_coupon_id |-> NoId]]

\* The members of the publication.
MemberData ==
  [m1 |-> [email |-> "ann@x", name |-> "Ann", status |-> "free",
           subscribed |-> FALSE, tier_id |-> NoTier],
   m2 |-> [email |-> "bob@x", name |-> "Bob", status |-> "free",
           subscribed |-> FALSE, tier_id |-> NoTier]]

\* the settings cache; the title is a string of characters
SettingsData ==
  [title |-> <<"B">>, donations_currency |-> "usd", donations_suggested_amount |-> 500]

\* String.prototype.toLowerCase on the currency codes in use.
ToLowerCase(s) ==
  CASE s = "USD" -> "usd"
    [] s = "EUR" -> "eur"
    [] OTHER -> s

VARIABLES
  provProducts,   \* provider: products, <<[name, active]>>
  provPrices,     \* provider: prices
  provCustomers,  \* provider: customers
  provCoupons,    \* provider: coupons
  productRows,    \* DodoProduct table (ProductLink)
  priceRows,      \* DodoPrice table (PriceLink); a row's id is its position
  customerRows,   \* DodoCustomer table (CustomerLink)
  offers,         \* Offer table: offer id -> row
  tiers,          \* tier id -> Tier
  settings,       \* settings cache: title, donations_currency, donations_suggested_amount
  members,        \* member repository: member id -> member
  pc,             \* per process: position in the running PaymentsService call
  loc,            \* per process: locals of the running call
  prev,           \* summary of the call completed just before the current one
  response,       \* last webhook response
  connect,        \* the admin session's connect state and the last token exchange
  used            \* calls and drift events so far

vars == <<provProducts, provPrices, provCustomers, provCoupons, productRows,
          priceRows, customerRows, offers, tiers, settings, members, pc, loc, prev,
          response, connect, used>>

provider == <<provProducts, provPrices, provCustomers, provCoupons>>
cache == <<productRows, priceRows, customerRows, offers>>
webhookVars == <<members, response>>
rest == <<tiers, settings, prev, used, members, response, connect>>

\* ------------------------------------------------------------ helpers
Range(s) == {s[i] : i \in DOMAIN s}

RECURSIVE SetToSeq(_)
\* the members of a set of row positions, in table order
SetToSeq(S) ==
  IF S = {} THEN <<>>
  ELSE LET m == CHOOSE x \in S : \A y \in S : x <= y
       IN <<m>> \o SetToSeq(S \ {m})

\* Tier.getPrice(cadence)
GetPrice(tier, cadence) == IF cadence = "month" THEN tier.monthly ELSE tier.yearly

\* ------------------------------------------------------------ locals
\* event.data.object of a webhook, flattened: the fields the handlers read
BlankEvent(type) ==
  [type |-> type, shape |-> "ok", customer |-> NoId, customer_email |-> NoVal,
   price_id |-> NoId, status |-> NoVal, email |-> NoVal, name |-> NoVal]

InitLoc ==
  [op |-> "none", tier |-> NoTier, cadence |-> NoVal,
   phase |-> "scan",          \* which getProductForTier call is running
   rows |-> <<>>, idx |-> 0,  \* getProductForTier: candidate product ids
   product |-> NoId,          \* getPriceForTierCadence: product
   cproduct |-> NoId,         \* createPriceForTierCadence: product
   prows |-> <<>>, pidx |-> 0,\* getPriceForTierCadence: candidate row ids
   fetchedActive |-> FALSE,   \* price.active of the price just fetched
   newProduct |-> NoId, newPrice |-> NoId,
   \* getPaymentLink
   offer |-> NoVal, member |-> NoVal, email |-> NoVal,
   coupon |-> NoId,           \* coupon?.id
   customer |-> NoId,         \* customer?.id
   trialDays |-> [set |-> FALSE, days |-> 0],   \* null until an offer sets it
   crows |-> <<>>, cidx |-> 0,\* getCustomerForMember: candidate customer ids
   newCoupon |-> NoId, newCustomer |-> NoId,
   session |-> [sent |-> FALSE],  \* the session request handed to the provider
   \* getDonationPaymentLink, getPriceForDonations
   auth |-> FALSE,            \* isAuthenticated
   nickname |-> <<>>,         \* getDonationPriceNickname()
   drow |-> NoId,             \* the DodoPrice row matched, by id
   renamed |-> NoVal,         \* how the rename of a matched price went
   \* getCouponForOffer, updateNameForTierProducts
   stored |-> NoId,           \* the offer's coupon id when the call began
   nCoupon |-> 0,             \* coupons the call created
   attempted |-> 0,           \* updateProduct calls the call issued
   result |-> NoId, error |-> NoVal,
   \* bookkeeping of what the call did
   sawNoProduct |-> FALSE, sawNoPrice |-> FALSE, lookupFailed |-> FALSE,
   disagreed |-> {}, nProd |-> 0, nPrice |-> 0,
   nCustomer |-> 0,           \* customers the call created
   \* kept for a direct getCustomerForMember / getProductForTier call
   failedCustomers |-> {},    \* candidates whose getCustomer lookup threw
   failedProducts |-> {},     \* candidates whose getProduct lookup threw
   \* handleWebhook: the event being handled (member and tier hold what the
   \* handler looked up)
   event |-> BlankEvent("none")]

\* what is kept of a call once it has returned: its arguments, its result and
\* the bookkeeping; the locals of the scan are gone
Returned(l) ==
  [InitLoc EXCEPT !.op = l.op, !.tier = l.tier, !.cadence = l.cadence,
                  !.offer = l.offer, !.member = l.member,
                  !.coupon = l.coupon, !.customer = l.customer,
                  !.session = l.session,
                  !.auth = l.auth, !.drow = l.drow, !.renamed = l.renamed,
                  !.stored = l.stored, !.nCoupon = l.nCoupon,
                  !.attempted = l.attempted,
                  !.result = l.result, !.error = l.error,
                  !.sawNoProduct = l.sawNoProduct, !.sawNoPrice = l.sawNoPrice,
                  !.lookupFailed = l.lookupFailed, !.disagreed = l.disagreed,
                  !.nProd = l.nProd, !.nPrice = l.nPrice,
                  !.nCustomer = l.nCustomer, !.failedCustomers = l.failedCustomers,
                  !.failedProducts = l.failedProducts, !.event = l.event]

Summary(l) ==
  [op |-> l.op, tier |-> l.tier, cadence |-> l.cadence, member |-> l.member,
   result |-> l.result,
   clean |-> (l.error = NoVal /\ ~l.lookupFailed)]

NoCall == Summary(InitLoc)

Quiet == \A p \in Procs : pc[p] \in {"idle", "done"}

\* ------------------------------------------------------------ DodoAPI
\* DodoAPI.createProduct: the provider's new product as returned
ApiCreateProduct(productData) ==
  [name |-> productData.name, active |-> TRUE]

\* DodoAPI.createPrice with the currency sent as the caller gave it
ApiCreatePriceKeepsCase(priceData) ==
  [product_id |-> priceData.product,
   currency |-> priceData.currency,
   unit_amount |-> priceData.amount,
   recurring |-> IF priceData.type = "recurring" THEN priceData.interval ELSE NoVal,
   nickname |-> priceData.nickname,
   active |-> priceData.active # FALSE]

\* DodoAPI.createPrice: the provider's new price as returned
ApiCreatePrice(priceData) ==
  [product_id |-> priceData.product,
   currency |-> ToLowerCase(priceData.currency),
   unit_amount |-> priceData.amount,
   recurring |-> IF priceData.type = "recurring" THEN priceData.interval ELSE NoVal,
   nickname |-> priceData.nickname,
   active |-> priceData.active # FALSE]

\* ------------------------------------------------------------ getProductForTier
\* where the call goes once getProductForTier has returned product id
AfterProduct(l, id) ==
  IF l.op = "product"
  THEN [pc |-> "done", loc |-> Returned([l EXCEPT !.product = id, !.result = id])]
  ELSE IF l.phase = "scan"
  THEN [pc |-> "pr_read", loc |-> [l EXCEPT !.product = id]]
  ELSE [pc |-> "cp_create", loc |-> [l EXCEPT !.cproduct = id]]

\* the for loop of getProductForTier moves to the next row, or falls through
NextProductCandidate(l) ==
  IF l.idx + 1 > Len(l.rows)
  THEN [pc |-> "gp_create", loc |-> l]
  ELSE [pc |-> "gp_fetch", loc |-> [l EXCEPT !.idx = l.idx + 1]]

\* the ProductLink rows of a tier, as dodo_product_id, in table order
ProductRowsOf(t) ==
  LET at == SetToSeq({i \in DOMAIN productRows : productRows[i].product_id = t})
  IN [k \in 1..Len(at) |-> productRows[at[k]].dodo_product_id]

GetProductForTierRows(p) ==
  /\ pc[p] = "gp_read"
  /\ LET l == loc[p]
         rows == ProductRowsOf(l.tier)
         l2 == [l EXCEPT !.rows = rows, !.idx = 1,
                         !.sawNoProduct = IF l.phase = "scan" THEN rows = <<>> ELSE @]
     IN /\ pc' = [pc EXCEPT ![p] = IF rows = <<>> THEN "gp_create" ELSE "gp_fetch"]
        /\ loc' = [loc EXCEPT ![p] = l2]
  /\ UNCHANGED <<provider, cache, rest>>

\* the test with the product's state left out
ProductVerifiedAlways(product) == TRUE

\* getProductForTier: if (product.active)
ProductVerified(product) == product.active

GetProductForTierFetch(p) ==
  /\ pc[p] = "gp_fetch"
  /\ LET l == loc[p]
         id == l.rows[l.idx]
         product == provProducts[id]
         nx == IF ProductVerified(product) THEN AfterProduct(l, id)
               ELSE NextProductCandidate(l)
     IN /\ pc' = [pc EXCEPT ![p] = nx.pc]
        /\ loc' = [loc EXCEPT ![p] = nx.loc]
  /\ UNCHANGED <<provider, cache, rest>>

GetProductForTierFetchFails(p) ==
  /\ pc[p] = "gp_fetch"
  /\ LET l == loc[p]
         nx == NextProductCandidate([l EXCEPT !.lookupFailed = TRUE,
                                              !.failedProducts =
                                                 IF l.op = "product"
                                                 THEN @ \cup {l.rows[l.idx]} ELSE @])
     IN /\ pc' = [pc EXCEPT ![p] = nx.pc]
        /\ loc' = [loc EXCEPT ![p] = nx.loc]
  /\ UNCHANGED <<provider, cache, rest>>

\* a provider mutation that fails is not caught: the call ends with the error
Abort(p, err) ==
  /\ pc' = [pc EXCEPT ![p] = "done"]
  /\ loc' = [loc EXCEPT ![p] = Returned([loc[p] EXCEPT !.error = err])]

\* createProductForTier that looks for a ProductLink row again before creating
CreateProductForTierCallRechecks(p) ==
  /\ pc[p] = "gp_create"
  /\ LET rows == ProductRowsOf(loc[p].tier)
     IN IF rows # <<>>
        THEN /\ loc' = [loc EXCEPT ![p].newProduct = rows[1]]
             /\ pc' = [pc EXCEPT ![p] = "gp_add"]
             /\ UNCHANGED provProducts
        ELSE /\ Len(provProducts) < MaxProducts
             /\ provProducts' = Append(provProducts,
                                  ApiCreateProduct([name |-> tiers[loc[p].tier].name]))
             /\ loc' = [loc EXCEPT ![p].newProduct = Len(provProducts) + 1,
                                   ![p].nProd = @ + 1]
             /\ pc' = [pc EXCEPT ![p] = "gp_add"]
  /\ UNCHANGED <<provPrices, provCustomers, provCoupons, cache, rest>>

CreateProductForTierCall(p) ==
  /\ pc[p] = "gp_create"
  /\ Len(provProducts) < MaxProducts
  /\ provProducts' = Append(provProducts,
                            ApiCreateProduct([name |-> tiers[loc[p].tier].name]))
  /\ loc' = [loc EXCEPT ![p].newProduct = Len(provProducts) + 1,
                        ![p].nProd = @ + 1]
  /\ pc' = [pc EXCEPT ![p] = "gp_add"]
  /\ UNCHANGED <<provPrices, provCustomers, provCoupons, cache, rest>>

CreateProductForTierFails(p) ==
  /\ pc[p] = "gp_create"
  /\ Abort(p, "provider")
  /\ UNCHANGED <<provider, cache, rest>>

ProductRow(t, id) == [product_id |-> t, dodo_product_id |-> id]

CreateProductForTierAdd(p) ==
  /\ pc[p] = "gp_add"
  /\ LET l == loc[p]
         nx == AfterProduct(l, l.newProduct)
     IN /\ productRows' = Append(productRows, ProductRow(l.tier, l.newProduct))
        /\ pc' = [pc EXCEPT ![p] = nx.pc]
        /\ loc' = [loc EXCEPT ![p] = nx.loc]
  /\ UNCHANGED <<provider, priceRows, customerRows, offers, rest>>

\* a caller invokes getProductForTier(tier)
StartProduct(p, t) ==
  /\ pc[p] \in {"idle", "done"}
  /\ pc' = [pc EXCEPT ![p] = "gp_read"]
  /\ loc' = [loc EXCEPT ![p] = [InitLoc EXCEPT !.op = "product", !.tier = t]]
  /\ prev' = IF pc[p] = "done" THEN Summary(loc[p]) ELSE NoCall
  /\ used.calls < MaxCalls
  /\ used' = [used EXCEPT !.calls = @ + 1]
  /\ UNCHANGED <<provider, cache, tiers, settings, webhookVars, connect>>

\* ------------------------------------------------------------ tier event subscriptions
\* a subscription that reacts to tiers of every type
TierEventForAnyTier(tier) == TRUE

\* the test of the TierCreatedEvent, TierPriceChangeEvent and
\* TierNameChangeEvent subscriptions: event.data.tier.type === 'paid'
TierEventForPaidTier(tier) == tier.type = "paid"

\* the subscription goes on from getPriceForTierCadence(tier, 'month') to
\* getPriceForTierCadence(tier, 'year'): the locals of the first call are gone
YearAfterMonth(l) ==
  [l EXCEPT !.cadence = "year", !.phase = "scan", !.rows = <<>>, !.idx = 0,
            !.product = NoId, !.cproduct = NoId, !.prows = <<>>, !.pidx = 0,
            !.fetchedActive = FALSE, !.newProduct = NoId, !.newPrice = NoId]

\* ------------------------------------------------------------ getPriceForTierCadence
\* getPriceForTierCadence or createPriceForTierCadence returns price id
FinishPrice(l, id) ==
  IF l.op = "link"
  THEN [pc |-> "session", loc |-> [l EXCEPT !.result = id]]
  ELSE IF l.op = "tier" /\ l.cadence = "month"
  THEN [pc |-> "gp_read", loc |-> YearAfterMonth(l)]
  ELSE [pc |-> "done", loc |-> Returned([l EXCEPT !.result = id])]

\* the where() filter of getPriceForTierCadence on one DodoPrice row
PriceRowMatches(r, productId, currency, cadence, amount) ==
  /\ r.dodo_product_id = productId
  /\ r.currency = currency
  /\ r.interval = cadence
  /\ r.amount = amount
  /\ r.active = TRUE
  /\ r.type = "recurring"

\* the test of getPriceForTierCadence on the price the provider returned
PriceVerified(price, currency, amount, cadence) ==
  /\ price.active
  /\ ToLowerCase(price.currency) = currency
  /\ price.unit_amount = amount
  /\ price.recurring = cadence

\* the for loop of getPriceForTierCadence moves to the next row, or falls
\* through to createPriceForTierCadence, which resolves the product again
NextPriceCandidate(l) ==
  IF l.pidx + 1 > Len(l.prows)
  THEN [pc |-> "gp_read", loc |-> [l EXCEPT !.phase = "create"]]
  ELSE [pc |-> "pr_fetch", loc |-> [l EXCEPT !.pidx = l.pidx + 1]]

GetPriceRows(p) ==
  /\ pc[p] = "pr_read"
  /\ LET l == loc[p]
         tier == tiers[l.tier]
         currency == ToLowerCase(tier.currency)
         amount == GetPrice(tier, l.cadence)
         prows == SetToSeq({i \in DOMAIN priceRows :
                     PriceRowMatches(priceRows[i], l.product, currency, l.cadence, amount)})
     IN /\ pc' = [pc EXCEPT ![p] = IF prows = <<>> THEN "gp_read" ELSE "pr_fetch"]
        /\ loc' = [loc EXCEPT ![p] =
                     [l EXCEPT !.prows = prows, !.pidx = 1,
                               !.sawNoPrice = (prows = <<>>),
                               !.phase = IF prows = <<>> THEN "create" ELSE @]]
  /\ UNCHANGED <<provider, cache, rest>>

GetPriceFetch(p) ==
  /\ pc[p] = "pr_fetch"
  /\ LET l == loc[p]
         tier == tiers[l.tier]
         row == l.prows[l.pidx]
         id == priceRows[row].dodo_price_id
         price == provPrices[id]
         nx == IF PriceVerified(price, ToLowerCase(tier.currency),
                                GetPrice(tier, l.cadence), l.cadence)
               THEN FinishPrice(l, id)
               ELSE [pc |-> "pr_edit",
                     loc |-> [l EXCEPT !.fetchedActive = price.active,
                                       !.disagreed = @ \cup {row}]]
     IN /\ pc' = [pc EXCEPT ![p] = nx.pc]
        /\ loc' = [loc EXCEPT ![p] = nx.loc]
  /\ UNCHANGED <<provider, cache, rest>>

GetPriceFetchFails(p) ==
  /\ pc[p] = "pr_fetch"
  /\ LET nx == NextPriceCandidate([loc[p] EXCEPT !.lookupFailed = TRUE])
     IN /\ pc' = [pc EXCEPT ![p] = nx.pc]
        /\ loc' = [loc EXCEPT ![p] = nx.loc]
  /\ UNCHANGED <<provider, cache, rest>>

\* DodoPriceModel.edit({active: !!price.active}, {id: row.id})
HealedActive(priceActive) == priceActive

\* an edit that also unlinks the row from its provider price
PriceModelEditUnlinks(rows, id, active) ==
  [rows EXCEPT ![id].active = active, ![id].dodo_price_id = NoId]

\* DodoPriceModel.edit({active}, {id}) on the DodoPrice table
PriceModelEdit(rows, id, active) == [rows EXCEPT ![id].active = active]

GetPriceHeal(p) ==
  /\ pc[p] = "pr_edit"
  /\ LET l == loc[p]
         nx == NextPriceCandidate(l)
     IN /\ priceRows' = PriceModelEdit(priceRows, l.prows[l.pidx],
                                       HealedActive(l.fetchedActive))
        /\ pc' = [pc EXCEPT ![p] = nx.pc]
        /\ loc' = [loc EXCEPT ![p] = nx.loc]
  /\ UNCHANGED <<provider, productRows, customerRows, offers, rest>>

\* the priceData createPriceForTierCadence hands to DodoAPI.createPrice
TierPriceData(tier, cadence, productId) ==
  [product |-> productId, interval |-> cadence, currency |-> tier.currency,
   amount |-> GetPrice(tier, cadence),
   nickname |-> IF cadence = "month" THEN "Monthly" ELSE "Yearly",
   type |-> "recurring", active |-> TRUE]

CreatePriceForTierCadenceCall(p) ==
  /\ pc[p] = "cp_create"
  /\ Len(provPrices) < MaxPrices
  /\ LET l == loc[p]
     IN provPrices' = Append(provPrices,
                        ApiCreatePrice(TierPriceData(tiers[l.tier], l.cadence, l.cproduct)))
  /\ loc' = [loc EXCEPT ![p].newPrice = Len(provPrices) + 1,
                        ![p].nPrice = @ + 1]
  /\ pc' = [pc EXCEPT ![p] = "cp_add"]
  /\ UNCHANGED <<provProducts, provCustomers, provCoupons, cache, rest>>

CreatePriceForTierCadenceFails(p) ==
  /\ pc[p] = "cp_create"
  /\ Abort(p, "provider")
  /\ UNCHANGED <<provider, cache, rest>>

\* the DodoPrice row createPriceForTierCadence adds for the returned price
TierPriceRow(price, id, productId, cadence) ==
  [dodo_price_id |-> id, dodo_product_id |-> productId, active |-> price.active,
   nickname |-> price.nickname, currency |-> price.currency,
   amount |-> price.unit_amount, type |-> "recurring", interval |-> cadence]

CreatePriceForTierCadenceAdd(p) ==
  /\ pc[p] = "cp_add"
  /\ LET l == loc[p]
         nx == FinishPrice(l, l.newPrice)
     IN /\ priceRows' = Append(priceRows,
                          TierPriceRow(provPrices[l.newPrice], l.newPrice, l.cproduct, l.cadence))
        /\ pc' = [pc EXCEPT ![p] = nx.pc]
        /\ loc' = [loc EXCEPT ![p] = nx.loc]
  /\ UNCHANGED <<provider, productRows, customerRows, offers, rest>>

\* a caller invokes getPriceForTierCadence(tier, cadence)
StartPrice(p, t, c) ==
  /\ pc[p] \in {"idle", "done"}
  /\ pc' = [pc EXCEPT ![p] = "gp_read"]
  /\ loc' = [loc EXCEPT ![p] = [InitLoc EXCEPT !.op = "price", !.tier = t, !.cadence = c]]
  /\ prev' = IF pc[p] = "done" THEN Summary(loc[p]) ELSE NoCall
  /\ used.calls < MaxCalls
  /\ used' = [used EXCEPT !.calls = @ + 1]
  /\ UNCHANGED <<provider, cache, tiers, settings, webhookVars, connect>>

\* the amounts a tier's price is changed to
NewAmounts == {[monthly |-> 6, yearly |-> 60]}

\* a tier is created (ev = "created") or its amounts are changed to a (ev =
\* "price"), and the TierCreatedEvent / TierPriceChangeEvent subscription runs
StartTierEvent(p, t, ev, a) ==
  /\ pc[p] \in {"idle", "done"}
  /\ ev = "price" => (a.monthly # tiers[t].monthly /\ a.yearly # tiers[t].yearly)
  /\ tiers' = IF ev = "price"
              THEN [tiers EXCEPT ![t].monthly = a.monthly, ![t].yearly = a.yearly]
              ELSE tiers
  /\ LET l == [InitLoc EXCEPT !.op = "tier", !.tier = t, !.cadence = "month"]
     IN IF TierEventForPaidTier(tiers[t])
        THEN /\ pc' = [pc EXCEPT ![p] = "gp_read"]
             /\ loc' = [loc EXCEPT ![p] = l]
        ELSE /\ pc' = [pc EXCEPT ![p] = "done"]
             /\ loc' = [loc EXCEPT ![p] = Returned(l)]
  /\ prev' = NoCall
  /\ used.calls + 2 <= MaxCalls     \* the subscription makes two calls
  /\ used' = [used EXCEPT !.calls = @ + 2]
  /\ UNCHANGED <<provider, cache, settings, webhookVars, connect>>

\* ------------------------------------------------------------ getCouponForOffer
\* where the call goes once getCouponForOffer has returned
AfterCoupon(l) ==
  IF l.op = "link"
  THEN [pc |-> IF l.member # NoVal THEN "cu_read" ELSE "gp_read", loc |-> l]
  ELSE [pc |-> "done", loc |-> Returned([l EXCEPT !.result = l.coupon])]

\* the row test with the discount kind left out
NoCouponForMissingRowOnly(o) == o \notin DOMAIN offers

\* getCouponForOffer: !row || row.discount_type === 'trial'
NoCouponFor(o) == o \notin DOMAIN offers \/ offers[o].type = "trial"

GetCouponForOfferRow(p) ==
  /\ pc[p] = "co_read"
  /\ LET l == loc[p]
         nx == IF NoCouponFor(l.offer)
               THEN AfterCoupon([l EXCEPT !.coupon = NoId])
               ELSE IF offers[l.offer].dodo_coupon_id = NoId
               THEN [pc |-> "co_offer", loc |-> l]
               ELSE AfterCoupon([l EXCEPT !.coupon = offers[l.offer].dodo_coupon_id])
     IN /\ pc' = [pc EXCEPT ![p] = nx.pc]
        /\ loc' = [loc EXCEPT ![p] = nx.loc]
  /\ UNCHANGED <<provider, cache, rest>>

\* offersAPI.getOffer({id: offerId})
GetCouponForOfferDetails(p) ==
  /\ pc[p] = "co_offer"
  /\ pc' = [pc EXCEPT ![p] = "co_create"]
  /\ UNCHANGED <<provider, cache, loc, rest>>

\* couponData without the currency of a fixed amount
CouponDataNoCurrency(offer) ==
  [name |-> offer.name, duration |-> offer.duration,
   duration_in_months |-> IF offer.duration = "repeating"
                          THEN offer.duration_in_months ELSE 0,
   percent_off |-> IF offer.type = "percent" THEN offer.amount ELSE 0,
   amount_off |-> IF offer.type = "percent" THEN 0 ELSE offer.amount,
   currency |-> NoVal]

\* the couponData createCouponForOffer builds from the offer
CouponData(offer) ==
  [name |-> offer.name, duration |-> offer.duration,
   duration_in_months |-> IF offer.duration = "repeating"
                          THEN offer.duration_in_months ELSE 0,
   percent_off |-> IF offer.type = "percent" THEN offer.amount ELSE 0,
   amount_off |-> IF offer.type = "percent" THEN 0 ELSE offer.amount,
   currency |-> IF offer.type = "percent" THEN NoVal ELSE offer.currency]

\* DodoAPI.createCoupon: the coupon the provider stores
ApiCreateCoupon(couponData) ==
  [name |-> couponData.name,
   discount_type |-> IF couponData.percent_off # 0 THEN "percentage" ELSE "fixed_amount",
   discount_value |-> IF couponData.percent_off # 0 THEN couponData.percent_off
                      ELSE couponData.amount_off,
   currency |-> couponData.currency,
   duration |-> couponData.duration,
   duration_in_months |-> couponData.duration_in_months]

CreateCouponForOfferCall(p) ==
  /\ pc[p] = "co_create"
  /\ Len(provCoupons) < MaxCoupons
  /\ provCoupons' = Append(provCoupons, ApiCreateCoupon(CouponData(offers[loc[p].offer])))
  /\ loc' = [loc EXCEPT ![p].newCoupon = Len(provCoupons) + 1,
                        ![p].nCoupon = @ + 1]
  /\ pc' = [pc EXCEPT ![p] = "co_edit"]
  /\ UNCHANGED <<provProducts, provPrices, provCustomers, cache, rest>>

CreateCouponForOfferFails(p) ==
  /\ pc[p] = "co_create"
  /\ Abort(p, "provider")
  /\ UNCHANGED <<provider, cache, rest>>

\* OfferModel.edit({dodo_coupon_id: coupon.id}, {id: offer.id}), then the
\* recursive getCouponForOffer(offerId)
CreateCouponForOfferEdit(p) ==
  /\ pc[p] = "co_edit"
  /\ offers' = [offers EXCEPT ![loc[p].offer].dodo_coupon_id = loc[p].newCoupon]
  /\ pc' = [pc EXCEPT ![p] = "co_read"]
  /\ UNCHANGED <<provider, productRows, priceRows, customerRows, loc, rest>>

\* a caller (the OfferCreatedEvent subscription) invokes getCouponForOffer(offerId)
StartCoupon(p, o) ==
  /\ pc[p] \in {"idle", "done"}
  /\ pc' = [pc EXCEPT ![p] = "co_read"]
  /\ loc' = [loc EXCEPT ![p] = [InitLoc EXCEPT !.op = "coupon", !.offer = o,
                                               !.stored = offers[o].dodo_coupon_id]]
  /\ prev' = NoCall
  /\ used.calls < MaxCalls
  /\ used' = [used EXCEPT !.calls = @ + 1]
  /\ UNCHANGED <<provider, cache, tiers, settings, webhookVars, connect>>

\* ------------------------------------------------------------ updateNameForTierProducts
TierNames == {"Gold", "Platinum"}

\* the tier is renamed and the TierNameChangeEvent subscription invokes
\* updateNameForTierProducts(tier)
StartRename(p, t, name) ==
  /\ pc[p] \in {"idle", "done"}
  /\ name # tiers[t].name
  /\ tiers' = [tiers EXCEPT ![t].name = name]
  /\ LET l == [InitLoc EXCEPT !.op = "rename", !.tier = t]
     IN IF TierEventForPaidTier(tiers[t])
        THEN /\ pc' = [pc EXCEPT ![p] = "rn_read"]
             /\ loc' = [loc EXCEPT ![p] = l]
        ELSE /\ pc' = [pc EXCEPT ![p] = "done"]
             /\ loc' = [loc EXCEPT ![p] = Returned(l)]
  /\ prev' = NoCall
  /\ used.calls < MaxCalls
  /\ used' = [used EXCEPT !.calls = @ + 1]
  /\ UNCHANGED <<provider, cache, settings, webhookVars, connect>>

UpdateNameRows(p) ==
  /\ pc[p] = "rn_read"
  /\ LET l == loc[p]
         rows == ProductRowsOf(l.tier)
     IN IF rows = <<>>
        THEN /\ pc' = [pc EXCEPT ![p] = "done"]
             /\ loc' = [loc EXCEPT ![p] = Returned(l)]
        ELSE /\ pc' = [pc EXCEPT ![p] = "rn_update"]
             /\ loc' = [loc EXCEPT ![p].rows = rows, ![p].idx = 1]
  /\ UNCHANGED <<provider, cache, rest>>

\* dodoAPIService.updateProduct(row.dodo_product_id, {name: tier.name})
UpdateNameCall(p) ==
  /\ pc[p] = "rn_update"
  /\ LET l == [loc[p] EXCEPT !.attempted = @ + 1]
     IN /\ provProducts' = [provProducts EXCEPT ![l.rows[l.idx]].name = tiers[l.tier].name]
        /\ IF l.idx + 1 > Len(l.rows)
           THEN /\ pc' = [pc EXCEPT ![p] = "done"]
                /\ loc' = [loc EXCEPT ![p] = Returned(l)]
           ELSE /\ pc' = pc
                /\ loc' = [loc EXCEPT ![p] = [l EXCEPT !.idx = @ + 1]]
  /\ UNCHANGED <<provPrices, provCustomers, provCoupons, cache, rest>>

\* the updateProduct call throws: nothing catches it inside the loop
UpdateNameFails(p) ==
  /\ pc[p] = "rn_update"
  /\ pc' = [pc EXCEPT ![p] = "done"]
  /\ loc' = [loc EXCEPT ![p] =
               Returned([loc[p] EXCEPT !.attempted = @ + 1, !.error = "provider"])]
  /\ UNCHANGED <<provider, cache, rest>>

\* ------------------------------------------------------------ getCustomerForMember
\* where the call goes once getCustomerForMember has returned customer id
AfterCustomer(l, id) ==
  IF l.op = "customer"
  THEN [pc |-> "done", loc |-> Returned([l EXCEPT !.customer = id, !.result = id])]
  ELSE [pc |-> IF l.op = "donate" THEN "dn_read" ELSE "gp_read",
        loc |-> [l EXCEPT !.customer = id]]

NextCustomerCandidate(l) ==
  IF l.cidx + 1 > Len(l.crows)
  THEN [pc |-> "cu_create", loc |-> l]
  ELSE [pc |-> "cu_fetch", loc |-> [l EXCEPT !.cidx = l.cidx + 1]]

\* the CustomerLink rows of a member, as customer_id, in table order
CustomerRowsOf(m) ==
  LET at == SetToSeq({i \in DOMAIN customerRows : customerRows[i].member_id = m})
  IN [k \in 1..Len(at) |-> customerRows[at[k]].customer_id]

GetCustomerForMemberRows(p) ==
  /\ pc[p] = "cu_read"
  /\ LET rows == CustomerRowsOf(loc[p].member)
     IN /\ pc' = [pc EXCEPT ![p] = IF rows = <<>> THEN "cu_create" ELSE "cu_fetch"]
        /\ loc' = [loc EXCEPT ![p].crows = rows, ![p].cidx = 1]
  /\ UNCHANGED <<provider, cache, rest>>

\* DodoAPI.getCustomer: a 404 answers {deleted: true}
ApiGetCustomer(id) ==
  IF provCustomers[id].state = "gone"
  THEN [id |-> NoId, deleted |-> TRUE]
  ELSE [id |-> id, deleted |-> provCustomers[id].state = "deleted"]

GetCustomerForMemberFetch(p) ==
  /\ pc[p] = "cu_fetch"
  /\ LET l == loc[p]
         customer == ApiGetCustomer(l.crows[l.cidx])
         nx == IF ~customer.deleted THEN AfterCustomer(l, customer.id)
               ELSE NextCustomerCandidate(l)
     IN /\ pc' = [pc EXCEPT ![p] = nx.pc]
        /\ loc' = [loc EXCEPT ![p] = nx.loc]
  /\ UNCHANGED <<provider, cache, rest>>

GetCustomerForMemberFetchFails(p) ==
  /\ pc[p] = "cu_fetch"
  /\ LET l == loc[p]
         nx == NextCustomerCandidate([l EXCEPT !.lookupFailed = TRUE,
                                               !.failedCustomers =
                                                  IF l.op = "customer"
                                                  THEN @ \cup {l.crows[l.cidx]} ELSE @])
     IN /\ pc' = [pc EXCEPT ![p] = nx.pc]
        /\ loc' = [loc EXCEPT ![p] = nx.loc]
  /\ UNCHANGED <<provider, cache, rest>>

\* DodoAPI.createCustomer: the provider's new customer
ApiCreateCustomer(customerData) ==
  [email |-> customerData.email, name |-> customerData.name, state |-> "live"]

CreateCustomerForMemberCall(p) ==
  /\ pc[p] = "cu_create"
  /\ Len(provCustomers) < MaxCustomers
  /\ LET m == members[loc[p].member]
     IN provCustomers' = Append(provCustomers,
                           ApiCreateCustomer([email |-> m.email, name |-> m.name]))
  /\ loc' = [loc EXCEPT ![p].newCustomer = Len(provCustomers) + 1,
                        ![p].nCustomer = @ + 1]
  /\ pc' = [pc EXCEPT ![p] = "cu_add"]
  /\ UNCHANGED <<provProducts, provPrices, provCoupons, cache, rest>>

CreateCustomerForMemberFails(p) ==
  /\ pc[p] = "cu_create"
  /\ Abort(p, "provider")
  /\ UNCHANGED <<provider, cache, rest>>

CustomerRow(m, id, customer) ==
  [member_id |-> m, customer_id |-> id, email |-> customer.email, name |-> customer.name]

CreateCustomerForMemberAdd(p) ==
  /\ pc[p] = "cu_add"
  /\ LET l == loc[p]
         nx == AfterCustomer(l, l.newCustomer)
     IN /\ customerRows' = Append(customerRows,
                             CustomerRow(l.member, l.newCustomer, provCustomers[l.newCustomer]))
        /\ pc' = [pc EXCEPT ![p] = nx.pc]
        /\ loc' = [loc EXCEPT ![p] = nx.loc]
  /\ UNCHANGED <<provider, productRows, priceRows, offers, rest>>

\* a caller invokes getCustomerForMember(member)
StartCustomer(p, m) ==
  /\ pc[p] \in {"idle", "done"}
  /\ pc' = [pc EXCEPT ![p] = "cu_read"]
  /\ loc' = [loc EXCEPT ![p] = [InitLoc EXCEPT !.op = "customer", !.member = m]]
  /\ prev' = IF pc[p] = "done" THEN Summary(loc[p]) ELSE NoCall
  /\ used.calls < MaxCalls
  /\ used' = [used EXCEPT !.calls = @ + 1]
  /\ UNCHANGED <<provider, cache, tiers, settings, webhookVars, connect>>

\* ------------------------------------------------------------ getPaymentLink
\* the tier's trial days whatever the offer set
TrialDaysOfTier(trialDays, tier) == [set |-> TRUE, days |-> tier.trialDays]

\* getPaymentLink: trialDays ?? tier.trialDays
TrialDaysOrDefault(trialDays, tier) ==
  IF trialDays.set THEN trialDays ELSE [set |-> TRUE, days |-> tier.trialDays]

\* the data object of getPaymentLink, after the delete and the e-mail fallback
LinkDataKeepsTrial(l, tier) ==
  [trialDays |-> TrialDaysOrDefault(l.trialDays, tier),
   coupon |-> l.coupon,
   customerEmail |-> IF l.customer = NoId /\ l.email # NoVal THEN l.email ELSE NoVal]

LinkData(l, tier) ==
  [trialDays |-> IF l.coupon # NoId THEN [set |-> FALSE, days |-> 0]
                 ELSE TrialDaysOrDefault(l.trialDays, tier),
   coupon |-> l.coupon,
   customerEmail |-> IF l.customer = NoId /\ l.email # NoVal THEN l.email ELSE NoVal]

\* DodoAPI.createCheckoutSession: the sessionData posted to the provider
ApiCheckoutSession(priceId, customer, data) ==
  [sent |-> TRUE,
   price_id |-> priceId,
   customer_id |-> customer,
   customer_email |-> IF customer = NoId THEN data.customerEmail ELSE NoVal,
   has_trial |-> data.trialDays.set /\ data.trialDays.days # 0,
   trial_period_days |-> IF data.trialDays.set THEN data.trialDays.days ELSE 0,
   has_coupon |-> data.coupon # NoId,
   coupon_id |-> data.coupon]

CreateCheckoutSessionCall(p) ==
  /\ pc[p] = "session"
  /\ LET l == loc[p]
         session == ApiCheckoutSession(l.result, l.customer, LinkData(l, tiers[l.tier]))
     IN /\ pc' = [pc EXCEPT ![p] = "done"]
        /\ loc' = [loc EXCEPT ![p] = Returned([l EXCEPT !.session = session])]
  /\ UNCHANGED <<provider, cache, rest>>

CreateCheckoutSessionFails(p) ==
  /\ pc[p] = "session"
  /\ Abort(p, "provider")
  /\ UNCHANGED <<provider, cache, rest>>

\* getPaymentLink without the test of the offer's tier
LinkEntryNoTierTest(l) ==
  IF l.offer # NoVal /\ offers[l.offer].type = "trial"
  THEN [pc |-> IF l.member # NoVal THEN "cu_read" ELSE "gp_read",
        loc |-> [l EXCEPT !.trialDays = [set |-> TRUE, days |-> offers[l.offer].amount]]]
  ELSE IF l.offer # NoVal
  THEN [pc |-> "co_read", loc |-> l]
  ELSE [pc |-> IF l.member # NoVal THEN "cu_read" ELSE "gp_read", loc |-> l]

\* the first stretch of getPaymentLink, up to its first await (or its throw)
LinkEntry(l) ==
  IF l.offer # NoVal /\ offers[l.offer].tier # l.tier
  THEN [pc |-> "done", loc |-> Returned([l EXCEPT !.error = "badrequest"])]
  ELSE IF l.offer # NoVal /\ offers[l.offer].type = "trial"
  THEN [pc |-> IF l.member # NoVal THEN "cu_read" ELSE "gp_read",
        loc |-> [l EXCEPT !.trialDays = [set |-> TRUE, days |-> offers[l.offer].amount]]]
  ELSE IF l.offer # NoVal
  THEN [pc |-> "co_read", loc |-> l]
  ELSE [pc |-> IF l.member # NoVal THEN "cu_read" ELSE "gp_read", loc |-> l]

\* a caller invokes getPaymentLink({tier, cadence, offer, member, email})
StartLink(p, t, c, o, m, e) ==
  /\ pc[p] \in {"idle", "done"}
  /\ used.calls < MaxLinks
  /\ LET nx == LinkEntry([InitLoc EXCEPT !.op = "link", !.tier = t, !.cadence = c,
                                         !.offer = o, !.member = m, !.email = e])
     IN /\ pc' = [pc EXCEPT ![p] = nx.pc]
        /\ loc' = [loc EXCEPT ![p] = nx.loc]
  /\ prev' = NoCall
  /\ used' = [used EXCEPT !.calls = @ + 1]
  /\ UNCHANGED <<provider, cache, tiers, settings, webhookVars, connect>>

\* ------------------------------------------------------------ donations
NicknameLimit == 250
MinimumCharge == 100
SupportPrefix == <<"S", "u", "p", "p", "o", "r", "t", " ">>

\* String.prototype.substring(0, n) on a string of characters
Substring0(str, n) == SubSeq(str, 1, IF Len(str) < n THEN Len(str) ELSE n)

\* getDonationPriceNickname with the limit put on the title alone
GetDonationPriceNicknameLimitsTitle(title) ==
  SupportPrefix \o Substring0(title, NicknameLimit)

GetDonationPriceNickname(title) ==
  Substring0(SupportPrefix \o title, NicknameLimit)

\* a caller invokes getDonationPriceNickname()
GetDonationPriceNicknameCall(p) ==
  /\ pc[p] = "idle"
  /\ pc' = [pc EXCEPT ![p] = "done"]
  /\ loc' = [loc EXCEPT ![p] =
               [InitLoc EXCEPT !.op = "nickname",
                               !.nickname = GetDonationPriceNickname(settings.title)]]
  /\ UNCHANGED <<provider, cache, rest>>

\* the amount getPriceForDonations looks for
DonationAmount(suggestedAmount) ==
  IF suggestedAmount # 0 /\ suggestedAmount >= MinimumCharge THEN suggestedAmount ELSE 0

\* getPriceForDonations returns price id
FinishDonationPrice(l, id) ==
  IF l.op = "donate"
  THEN [pc |-> "dn_session", loc |-> [l EXCEPT !.result = id]]
  ELSE [pc |-> "done", loc |-> Returned([l EXCEPT !.result = id])]

\* the where() filter of getPriceForDonations on one DodoPrice row
DonationRowMatches(r, amount, currency) ==
  /\ r.type = "donation"
  /\ r.active = TRUE
  /\ r.amount = amount
  /\ r.currency = currency

\* the first matching row; then the comparison of its nickname
GetPriceForDonationsRow(p) ==
  /\ pc[p] = "dn_read"
  /\ LET nickname == GetDonationPriceNickname(settings.title)
         amount == DonationAmount(settings.donations_suggested_amount)
         at == {i \in DOMAIN priceRows :
                  DonationRowMatches(priceRows[i], amount, settings.donations_currency)}
         row == CHOOSE i \in at : \A j \in at : i <= j
         l == [loc[p] EXCEPT !.nickname = nickname]
         nx == IF at = {}
               THEN [pc |-> "dq_read", loc |-> [l EXCEPT !.sawNoPrice = TRUE]]
               ELSE IF priceRows[row].nickname # nickname
               THEN [pc |-> "dn_rename_price", loc |-> [l EXCEPT !.drow = row]]
               ELSE FinishDonationPrice([l EXCEPT !.drow = row],
                                        priceRows[row].dodo_price_id)
     IN /\ pc' = [pc EXCEPT ![p] = nx.pc]
        /\ loc' = [loc EXCEPT ![p] = nx.loc]
  /\ UNCHANGED <<provider, cache, rest>>

\* dodoAPIService.updatePrice(price.dodo_price_id, {nickname})
RenameDonationPriceCall(p) ==
  /\ pc[p] = "dn_rename_price"
  /\ provPrices' = [provPrices EXCEPT
                      ![priceRows[loc[p].drow].dodo_price_id].nickname = loc[p].nickname]
  /\ pc' = [pc EXCEPT ![p] = "dn_rename_product"]
  /\ UNCHANGED <<provProducts, provCustomers, provCoupons, cache, loc, rest>>

\* dodoAPIService.updateProduct(price.dodo_product_id, {name: nickname})
RenameDonationProductCall(p) ==
  /\ pc[p] = "dn_rename_product"
  /\ provProducts' = [provProducts EXCEPT
                        ![priceRows[loc[p].drow].dodo_product_id].name = loc[p].nickname]
  /\ pc' = [pc EXCEPT ![p] = "dn_rename_row"]
  /\ UNCHANGED <<provPrices, provCustomers, provCoupons, cache, loc, rest>>

\* DodoPriceModel.edit({nickname}, {id: price.id}); then the return
RenameDonationRowEdit(p) ==
  /\ pc[p] = "dn_rename_row"
  /\ LET l == loc[p]
         nx == FinishDonationPrice([l EXCEPT !.renamed = "ok"],
                                   priceRows[l.drow].dodo_price_id)
     IN /\ priceRows' = [priceRows EXCEPT ![l.drow].nickname = l.nickname]
        /\ pc' = [pc EXCEPT ![p] = nx.pc]
        /\ loc' = [loc EXCEPT ![p] = nx.loc]
  /\ UNCHANGED <<provider, productRows, customerRows, offers, rest>>

\* a rename step whose failure leaves getPriceForDonations
RenameFailedThrows(l, at) ==
  [pc |-> "done", loc |-> Returned([l EXCEPT !.renamed = at, !.error = "provider"])]

\* catch (err) around the three rename steps: logged, then the return
RenameFailed(l, at) ==
  FinishDonationPrice([l EXCEPT !.renamed = at], priceRows[l.drow].dodo_price_id)

RenameDonationFails(p) ==
  /\ pc[p] \in {"dn_rename_price", "dn_rename_product", "dn_rename_row"}
  /\ LET nx == RenameFailed(loc[p], pc[p])
     IN /\ pc' = [pc EXCEPT ![p] = nx.pc]
        /\ loc' = [loc EXCEPT ![p] = nx.loc]
  /\ UNCHANGED <<provider, cache, rest>>

\* ---- getProductForDonations
NextDonationProductCandidate(l) ==
  IF l.idx + 1 > Len(l.rows)
  THEN [pc |-> "dq_create", loc |-> l]
  ELSE [pc |-> "dq_fetch", loc |-> [l EXCEPT !.idx = l.idx + 1]]

\* the products of the donation DodoPrice rows that have a DodoProduct row
DonationProductRows ==
  LET at == SetToSeq({i \in DOMAIN priceRows :
                        /\ priceRows[i].type = "donation"
                        /\ \E j \in DOMAIN productRows :
                             productRows[j].dodo_product_id = priceRows[i].dodo_product_id})
  IN [k \in 1..Len(at) |-> priceRows[at[k]].dodo_product_id]

GetProductForDonationsRows(p) ==
  /\ pc[p] = "dq_read"
  /\ LET rows == DonationProductRows
     IN /\ pc' = [pc EXCEPT ![p] = IF rows = <<>> THEN "dq_create" ELSE "dq_fetch"]
        /\ loc' = [loc EXCEPT ![p].rows = rows, ![p].idx = 1,
                              ![p].sawNoProduct = (rows = <<>>)]
  /\ UNCHANGED <<provider, cache, rest>>

GetProductForDonationsFetch(p) ==
  /\ pc[p] = "dq_fetch"
  /\ LET l == loc[p]
         id == l.rows[l.idx]
         nx == IF provProducts[id].active
               THEN [pc |-> "dc_create", loc |-> [l EXCEPT !.cproduct = id]]
               ELSE NextDonationProductCandidate(l)
     IN /\ pc' = [pc EXCEPT ![p] = nx.pc]
        /\ loc' = [loc EXCEPT ![p] = nx.loc]
  /\ UNCHANGED <<provider, cache, rest>>

GetProductForDonationsFetchFails(p) ==
  /\ pc[p] = "dq_fetch"
  /\ LET nx == NextDonationProductCandidate([loc[p] EXCEPT !.lookupFailed = TRUE])
     IN /\ pc' = [pc EXCEPT ![p] = nx.pc]
        /\ loc' = [loc EXCEPT ![p] = nx.loc]
  /\ UNCHANGED <<provider, cache, rest>>

CreateProductForDonationsCall(p) ==
  /\ pc[p] = "dq_create"
  /\ Len(provProducts) < MaxProducts
  /\ provProducts' = Append(provProducts, ApiCreateProduct([name |-> loc[p].nickname]))
  /\ loc' = [loc EXCEPT ![p].newProduct = Len(provProducts) + 1,
                        ![p].nProd = @ + 1]
  /\ pc' = [pc EXCEPT ![p] = "dq_add"]
  /\ UNCHANGED <<provPrices, provCustomers, provCoupons, cache, rest>>

CreateProductForDonationsFails(p) ==
  /\ pc[p] = "dq_create"
  /\ Abort(p, "provider")
  /\ UNCHANGED <<provider, cache, rest>>

\* DodoProductModel.add({product_id: null, dodo_product_id})
CreateProductForDonationsAdd(p) ==
  /\ pc[p] = "dq_add"
  /\ productRows' = Append(productRows, ProductRow(NoTier, loc[p].newProduct))
  /\ pc' = [pc EXCEPT ![p] = "dc_create"]
  /\ loc' = [loc EXCEPT ![p].cproduct = loc[p].newProduct]
  /\ UNCHANGED <<provider, priceRows, customerRows, offers, rest>>

\* ---- createPriceForDonations
\* the priceData handed to DodoAPI.createPrice: it has no amount and no
\* interval (custom_unit_amount is not a field createPrice reads)
DonationPriceData(currency, productId, nickname) ==
  [product |-> productId, currency |-> currency, nickname |-> nickname,
   type |-> "one-time", active |-> TRUE, amount |-> NoId, interval |-> NoVal]

CreatePriceForDonationsCall(p) ==
  /\ pc[p] = "dc_create"
  /\ Len(provPrices) < MaxPrices
  /\ LET l == loc[p]
     IN provPrices' = Append(provPrices,
                        ApiCreatePrice(DonationPriceData(settings.donations_currency,
                                                         l.cproduct, l.nickname)))
  /\ loc' = [loc EXCEPT ![p].newPrice = Len(provPrices) + 1,
                        ![p].nPrice = @ + 1]
  /\ pc' = [pc EXCEPT ![p] = "dc_add"]
  /\ UNCHANGED <<provProducts, provCustomers, provCoupons, cache, rest>>

CreatePriceForDonationsFails(p) ==
  /\ pc[p] = "dc_create"
  /\ Abort(p, "provider")
  /\ UNCHANGED <<provider, cache, rest>>

\* the DodoPrice row createPriceForDonations adds for the returned price
DonationPriceRow(price, id, productId, amount) ==
  [dodo_price_id |-> id, dodo_product_id |-> productId, active |-> price.active,
   nickname |-> price.nickname, currency |-> price.currency,
   amount |-> amount, type |-> "donation", interval |-> NoVal]

CreatePriceForDonationsAdd(p) ==
  /\ pc[p] = "dc_add"
  /\ LET l == loc[p]
         nx == FinishDonationPrice(l, l.newPrice)
     IN /\ priceRows' = Append(priceRows,
                          DonationPriceRow(provPrices[l.newPrice], l.newPrice, l.cproduct,
                                           DonationAmount(settings.donations_suggested_amount)))
        /\ pc' = [pc EXCEPT ![p] = nx.pc]
        /\ loc' = [loc EXCEPT ![p] = nx.loc]
  /\ UNCHANGED <<provider, productRows, customerRows, offers, rest>>

\* a caller invokes getPriceForDonations()
StartDonationPrice(p) ==
  /\ pc[p] \in {"idle", "done"}
  /\ pc' = [pc EXCEPT ![p] = "dn_read"]
  /\ loc' = [loc EXCEPT ![p] = [InitLoc EXCEPT !.op = "dprice"]]
  /\ prev' = IF pc[p] = "done" THEN Summary(loc[p]) ELSE NoCall
  /\ used.calls < MaxCalls
  /\ used' = [used EXCEPT !.calls = @ + 1]
  /\ UNCHANGED <<provider, cache, tiers, settings, webhookVars, connect>>

\* ---- getDonationPaymentLink
\* the test before getCustomerForMember, without isAuthenticated
DonationNeedsCustomerForAnyMember(member, isAuthenticated) == member # NoVal

\* if (member && isAuthenticated)
DonationNeedsCustomer(member, isAuthenticated) == member # NoVal /\ isAuthenticated

\* the data object of getDonationPaymentLink
DonationData(l) ==
  [priceId |-> l.result, customer |-> l.customer,
   customerEmail |-> IF l.customer = NoId /\ l.email # NoVal THEN l.email ELSE NoVal]

\* DodoAPI.createDonationCheckoutSession: the sessionData posted to the provider
ApiDonationSession(data) ==
  [sent |-> TRUE, mode |-> "payment", price_id |-> data.priceId,
   customer_id |-> data.customer,
   customer_email |-> IF data.customer = NoId THEN data.customerEmail ELSE NoVal]

CreateDonationCheckoutSessionCall(p) ==
  /\ pc[p] = "dn_session"
  /\ LET l == loc[p]
     IN /\ pc' = [pc EXCEPT ![p] = "done"]
        /\ loc' = [loc EXCEPT ![p] =
                     Returned([l EXCEPT !.session = ApiDonationSession(DonationData(l))])]
  /\ UNCHANGED <<provider, cache, rest>>

CreateDonationCheckoutSessionFails(p) ==
  /\ pc[p] = "dn_session"
  /\ Abort(p, "provider")
  /\ UNCHANGED <<provider, cache, rest>>

\* a caller invokes getDonationPaymentLink({member, email, isAuthenticated})
StartDonate(p, m, e, isAuthenticated) ==
  /\ pc[p] \in {"idle", "done"}
  /\ used.calls < MaxLinks
  /\ pc' = [pc EXCEPT ![p] = IF DonationNeedsCustomer(m, isAuthenticated)
                             THEN "cu_read" ELSE "dn_read"]
  /\ loc' = [loc EXCEPT ![p] = [InitLoc EXCEPT !.op = "donate", !.member = m,
                                               !.email = e, !.auth = isAuthenticated]]
  /\ prev' = NoCall
  /\ used' = [used EXCEPT !.calls = @ + 1]
  /\ UNCHANGED <<provider, cache, tiers, settings, webhookVars, connect>>

\* ------------------------------------------------------------ member repository
\* memberRepository.update(id, updates): the fields named in updates are set
RepoUpdate(ms, id, updates) ==
  [ms EXCEPT ![id] = [k \in DOMAIN @ |-> IF k \in DOMAIN updates THEN updates[k] ELSE @[k]]]

\* memberRepository.get({id})
RepoGetById(ms, id) == IF id \in DOMAIN ms THEN id ELSE NoVal

\* memberRepository.get({email})
RepoGetByEmail(ms, email) ==
  IF \E m \in DOMAIN ms : ms[m].email = email
  THEN CHOOSE m \in DOMAIN ms : ms[m].email = email
  ELSE NoVal

\* ------------------------------------------------------------ DodoWebhookController
\* What a handler has done so far: the members, and whether an exception left it.
\* A failure oracle f says which of the handler's awaits throw:
\* f.find (member lookup), f.update1, f.update2 (repository updates, in order),
\* f.tier (tier lookup).
Outcome(ms, threw) == [members |-> ms, threw |-> threw]

FindMemberFromCustomerId(ms, customerId) ==
  LET at == {i \in DOMAIN customerRows : customerRows[i].customer_id = customerId}
  IN IF at = {} THEN NoVal
     ELSE RepoGetById(ms, customerRows[CHOOSE i \in at : \A j \in at : i <= j].member_id)

\* findMemberFromPayment that turns to the email when the customer id finds nobody
FindMemberFromPaymentFallsBack(ms, payment) ==
  IF payment.customer # NoId /\ FindMemberFromCustomerId(ms, payment.customer) # NoVal
  THEN FindMemberFromCustomerId(ms, payment.customer)
  ELSE IF payment.customer_email # NoVal THEN RepoGetByEmail(ms, payment.customer_email)
  ELSE NoVal

FindMemberFromPayment(ms, payment) ==
  IF payment.customer # NoId THEN FindMemberFromCustomerId(ms, payment.customer)
  ELSE IF payment.customer_email # NoVal THEN RepoGetByEmail(ms, payment.customer_email)
  ELSE NoVal

\* price id -> DodoPrice row -> DodoProduct row -> tier; any exception gives null
FindTierFromSubscription(subscription, f) ==
  LET pat == {i \in DOMAIN priceRows : priceRows[i].dodo_price_id = subscription.price_id}
  IN IF f.tier \/ pat = {} THEN NoTier
     ELSE LET productId == priceRows[CHOOSE i \in pat : \A j \in pat : i <= j].dodo_product_id
              dat == {i \in DOMAIN productRows : productRows[i].dodo_product_id = productId}
          IN IF dat = {} THEN NoTier
             ELSE LET t == productRows[CHOOSE i \in dat : \A j \in dat : i <= j].product_id
                  IN IF t \in DOMAIN tiers THEN t ELSE NoTier

\* event.data.object, and the use of its id in the log line, throw a TypeError
\* when data or object is missing; both stand before the handler's try
Malformed(event) == event.shape # "ok"

HandlePaymentSucceeded(ms, event, f) ==
  IF Malformed(event) THEN Outcome(ms, TRUE)
  ELSE IF f.find THEN Outcome(ms, FALSE)
  ELSE LET member == FindMemberFromPayment(ms, event)
       IN IF member = NoVal \/ f.update1 THEN Outcome(ms, FALSE)
          ELSE Outcome(RepoUpdate(ms, member, [status |-> "paid"]), FALSE)

HandlePaymentFailed(ms, event, f) ==
  IF Malformed(event) THEN Outcome(ms, TRUE) ELSE Outcome(ms, FALSE)

GrantTierAccess(ms, member, subscription, f) ==
  LET tier == FindTierFromSubscription(subscription, f)
  IN IF tier = NoTier \/ f.update2 THEN ms
     ELSE RepoUpdate(ms, member, [tier_id |-> tier])

HandleSubscriptionCreated(ms, event, f) ==
  IF Malformed(event) THEN Outcome(ms, TRUE)
  ELSE IF f.find THEN Outcome(ms, FALSE)
  ELSE LET member == FindMemberFromCustomerId(ms, event.customer)
       IN IF member = NoVal \/ f.update1 THEN Outcome(ms, FALSE)
          ELSE Outcome(GrantTierAccess(
                         RepoUpdate(ms, member, [status |-> "paid", subscribed |-> TRUE]),
                         member, event, f), FALSE)

\* updateMemberSubscription that reads the status to set off the member's own
UpdateMemberSubscriptionFlips(ms, member, subscription, f) ==
  LET tier == FindTierFromSubscription(subscription, f)
      status == IF ms[member].status = "paid" THEN "free" ELSE "paid"
      updates == IF subscription.status = "active"
                 THEN IF tier # NoTier THEN [status |-> status, tier_id |-> tier]
                      ELSE [status |-> status]
                 ELSE [status |-> status, tier_id |-> NoTier]
  IN IF f.update1 THEN ms ELSE RepoUpdate(ms, member, updates)

UpdateMemberSubscription(ms, member, subscription, f) ==
  LET tier == FindTierFromSubscription(subscription, f)
      status == IF subscription.status = "active" THEN "paid" ELSE "free"
      updates == IF subscription.status = "active"
                 THEN IF tier # NoTier THEN [status |-> status, tier_id |-> tier]
                      ELSE [status |-> status]
                 ELSE [status |-> status, tier_id |-> NoTier]
  IN IF f.update1 THEN ms ELSE RepoUpdate(ms, member, updates)

HandleSubscriptionUpdated(ms, event, f) ==
  IF Malformed(event) THEN Outcome(ms, TRUE)
  ELSE IF f.find THEN Outcome(ms, FALSE)
  ELSE LET member == FindMemberFromCustomerId(ms, event.customer)
       IN IF member = NoVal THEN Outcome(ms, FALSE)
          ELSE Outcome(UpdateMemberSubscription(ms, member, event, f), FALSE)

RevokeTierAccess(ms, member, f) ==
  IF f.update2 THEN ms ELSE RepoUpdate(ms, member, [tier_id |-> NoTier])

HandleSubscriptionCancelled(ms, event, f) ==
  IF Malformed(event) THEN Outcome(ms, TRUE)
  ELSE IF f.find THEN Outcome(ms, FALSE)
  ELSE LET member == FindMemberFromCustomerId(ms, event.customer)
       IN IF member = NoVal \/ f.update1 THEN Outcome(ms, FALSE)
          ELSE Outcome(RevokeTierAccess(
                         RepoUpdate(ms, member, [status |-> "free", subscribed |-> FALSE]),
                         member, f), FALSE)

HandleCustomerCreated(ms, event, f) ==
  IF Malformed(event) THEN Outcome(ms, TRUE) ELSE Outcome(ms, FALSE)

\* the comparison that asks for both fields to differ
CustomerChangedInBoth(member, customer) ==
  member.email # customer.email /\ member.name # customer.name

\* handleCustomerUpdated: member.email !== customer.email || member.name !== customer.name
CustomerChanged(member, customer) ==
  member.email # customer.email \/ member.name # customer.name

HandleCustomerUpdated(ms, event, f) ==
  IF Malformed(event) THEN Outcome(ms, TRUE)
  ELSE IF f.find THEN Outcome(ms, FALSE)
  ELSE LET member == FindMemberFromCustomerId(ms, event.customer)
       IN IF member = NoVal THEN Outcome(ms, FALSE)
          ELSE IF CustomerChanged(ms[member], event)
          THEN IF f.update1 THEN Outcome(ms, FALSE)
               ELSE Outcome(RepoUpdate(ms, member,
                                       [email |-> event.email, name |-> event.name]), FALSE)
          ELSE Outcome(ms, FALSE)

\* the payment-shaped object the invoice handlers build: id, customer, amount
InvoiceAsPayment(event) ==
  [event EXCEPT !.customer_email = NoVal]

HandleInvoicePaymentSucceeded(ms, event, f) ==
  IF Malformed(event) THEN Outcome(ms, TRUE)
  ELSE HandlePaymentSucceeded(ms, InvoiceAsPayment(event), f)

HandleInvoicePaymentFailed(ms, event, f) ==
  IF Malformed(event) THEN Outcome(ms, TRUE)
  ELSE HandlePaymentFailed(ms, InvoiceAsPayment(event), f)

RecognizedTypes ==
  {"payment.succeeded", "payment.failed", "subscription.created",
   "subscription.updated", "subscription.cancelled", "customer.created",
   "customer.updated", "invoice.payment_succeeded", "invoice.payment_failed"}

\* the handler the switch of routeWebhookEvent picks
HandlerOf(type) == IF type \in RecognizedTypes THEN type ELSE "default"

RouteWebhookEvent(ms, event, f) ==
  CASE event.type = "payment.succeeded" -> HandlePaymentSucceeded(ms, event, f)
    [] event.type = "payment.failed" -> HandlePaymentFailed(ms, event, f)
    [] event.type = "subscription.created" -> HandleSubscriptionCreated(ms, event, f)
    [] event.type = "subscription.updated" -> HandleSubscriptionUpdated(ms, event, f)
    [] event.type = "subscription.cancelled" -> HandleSubscriptionCancelled(ms, event, f)
    [] event.type = "customer.created" -> HandleCustomerCreated(ms, event, f)
    [] event.type = "customer.updated" -> HandleCustomerUpdated(ms, event, f)
    [] event.type = "invoice.payment_succeeded" -> HandleInvoicePaymentSucceeded(ms, event, f)
    [] event.type = "invoice.payment_failed" -> HandleInvoicePaymentFailed(ms, event, f)
    [] OTHER -> Outcome(ms, FALSE)

\* ---- signature
WebhookSecret == "whsec"
HexLen == 64     \* length of a SHA-256 digest in hex

\* JSON.stringify and JSON.parse of the request body
Stringify(body) == [json |-> body]
ParseWebhook(payload) == payload.json

\* crypto.createHmac('sha256', secret).update(payload).digest('hex')
Hmac(payload, secret) == [of |-> payload, key |-> secret]

\* verifyWebhookSignature that compares the lengths only
VerifyWebhookSignatureByLength(payload, signature, secret) ==
  IF ~signature.present THEN "throws"
  ELSE IF signature.len # HexLen THEN "throws"
  ELSE "true"

\* DodoAPI.verifyWebhookSignature: Buffer.from(undefined) throws, and so does
\* timingSafeEqual on buffers of different lengths
VerifyWebhookSignature(payload, signature, secret) ==
  IF ~signature.present THEN "throws"
  ELSE IF signature.len # HexLen THEN "throws"
  ELSE IF signature.mac = Hmac(payload, secret) THEN "true" ELSE "false"

\* handleWebhook: the response and the members it leaves
HandleWebhook(ms, req, f) ==
  LET payload == Stringify(req.body)
      isValid == VerifyWebhookSignature(payload, req.signature, WebhookSecret)
  IN IF isValid # "true"
     THEN [status |-> 400, handler |-> NoVal, members |-> ms]
     ELSE LET event == ParseWebhook(payload)
              out == RouteWebhookEvent(ms, event, f)
          IN [status |-> IF out.threw THEN 400 ELSE 200,
              handler |-> HandlerOf(event.type),
              members |-> out.members]

\* ---- the requests of the model
NoFail == [find |-> FALSE, update1 |-> FALSE, update2 |-> FALSE, tier |-> FALSE]
Oracles == [find : BOOLEAN, update1 : BOOLEAN, update2 : BOOLEAN, tier : BOOLEAN]
\* the oracles with at most one failing call
SingleFailures ==
  {f \in Oracles : Cardinality({k \in DOMAIN f : f[k]}) <= 1}

PaymentTypes ==
  {"payment.succeeded", "payment.failed", "invoice.payment_succeeded",
   "invoice.payment_failed"}
SubscriptionTypes == {"subscription.created", "subscription.updated", "subscription.cancelled"}
CustomerTypes == {"customer.created", "customer.updated"}

PaymentEvents ==
  {[BlankEvent(ty) EXCEPT !.customer = c, !.customer_email = e] :
     ty \in PaymentTypes, c \in 0..2, e \in {NoVal, "bob@x", "zed@x"}}
SubscriptionEvents ==
  {[BlankEvent(ty) EXCEPT !.customer = c, !.price_id = pr, !.status = st] :
     ty \in SubscriptionTypes, c \in 1..2, pr \in 1..3, st \in {"active", "cancelled"}}
CustomerEvents ==
  {[BlankEvent(ty) EXCEPT !.customer = c, !.email = e, !.name = n] :
     ty \in CustomerTypes, c \in 1..2, e \in {"ann@x", "new@x"}, n \in {"Ann", "Anna"}}
MalformedEvents ==
  {[BlankEvent(ty) EXCEPT !.shape = sh] :
     ty \in RecognizedTypes \cup {"charge.refunded"}, sh \in {"nodata", "noobject"}}
Events ==
  PaymentEvents \cup SubscriptionEvents \cup CustomerEvents \cup MalformedEvents
    \cup {BlankEvent("charge.refunded")}

\* the x-dodo-signature header the provider computes for a body
SignatureFor(body, key) ==
  [present |-> TRUE, len |-> HexLen, mac |-> Hmac(Stringify(body), key)]

\* the body as an attacker changes it after it was signed
Tampered(body) ==
  [body EXCEPT !.type = IF @ = "subscription.created" THEN "subscription.cancelled"
                        ELSE "subscription.created",
               !.customer = 1, !.price_id = 1, !.status = "active"]

\* headers that do not carry the provider's signature of the body
ForgedSignatures(body) ==
  {[present |-> FALSE, len |-> 0, mac |-> Hmac(Stringify(body), WebhookSecret)],
   [present |-> TRUE, len |-> HexLen - 1, mac |-> Hmac(Stringify(body), WebhookSecret)],
   SignatureFor(body, "guess"),
   SignatureFor(Tampered(body), WebhookSecret)}

\* the bodies sent with such headers: one of every type, for the linked customer
ForgedBodies ==
  {ev \in Events :
     \/ /\ ev.shape = "ok" /\ ev.customer = 1 /\ ev.customer_email = NoVal
        /\ ev.price_id \in {NoId, 1} /\ ev.status \in {NoVal, "active"}
        /\ ev.email \in {NoVal, "new@x"} /\ ev.name \in {NoVal, "Anna"}
     \/ ev.type = "charge.refunded"}

\* the request carries the provider's signature of this very body
Genuine(req) == req.signature = SignatureFor(req.body, WebhookSecret)

\* an inbound POST to the webhook endpoint
Webhook(req, f) ==
  /\ LET r == HandleWebhook(members, req, f)
     IN /\ members' = r.members
        /\ response' = [status |-> r.status, handler |-> r.handler,
                        genuine |-> Genuine(req), type |-> req.body.type,
                        customer |-> req.body.customer]
  /\ UNCHANGED <<provider, cache, tiers, settings, pc, loc, prev, used, connect>>

\* ---- the subscription handlers, one await at a time
\* res.status(200).json({received: true}) once routeWebhookEvent has returned
Respond(p, l) ==
  /\ pc' = [pc EXCEPT ![p] = "done"]
  /\ loc' = [loc EXCEPT ![p] = Returned(l)]
  /\ response' = [status |-> 200, handler |-> HandlerOf(l.event.type),
                  genuine |-> TRUE, type |-> l.event.type,
                  customer |-> l.event.customer]

\* handleWebhook for a signed, well-formed subscription event
StartWebhook(p, ev) ==
  /\ pc[p] = "idle"
  /\ ev.type \in SubscriptionTypes /\ ~Malformed(ev)
  /\ pc' = [pc EXCEPT ![p] = "wh_find"]
  /\ loc' = [loc EXCEPT ![p] = [InitLoc EXCEPT !.op = "webhook", !.event = ev]]
  /\ UNCHANGED <<provider, cache, rest>>

\* await this.findMemberFromSubscription(subscription)
FindMemberStep(p) ==
  /\ pc[p] = "wh_find"
  /\ LET l == loc[p]
         member == FindMemberFromCustomerId(members, l.event.customer)
         found == [l EXCEPT !.member = member]
     IN IF member = NoVal
        THEN Respond(p, found)
        ELSE /\ pc' = [pc EXCEPT ![p] =
                         IF l.event.type = "subscription.updated"
                         THEN IF l.event.status = "active" THEN "wh_tier" ELSE "wh_updsub"
                         ELSE "wh_status"]
             /\ loc' = [loc EXCEPT ![p] = found]
             /\ UNCHANGED response
  /\ UNCHANGED <<provider, cache, tiers, settings, prev, used, members, connect>>

\* await this.memberRepository.update(member.id, {status, subscribed})
UpdateStatusStep(p) ==
  /\ pc[p] = "wh_status"
  /\ LET l == loc[p]
         created == l.event.type = "subscription.created"
     IN /\ members' = RepoUpdate(members, l.member,
                                 IF created THEN [status |-> "paid", subscribed |-> TRUE]
                                 ELSE [status |-> "free", subscribed |-> FALSE])
        /\ pc' = [pc EXCEPT ![p] = IF created THEN "wh_tier" ELSE "wh_revoke"]
  /\ UNCHANGED <<provider, cache, tiers, settings, prev, used, loc, response, connect>>

\* await this.findTierFromSubscription(subscription)
FindTierStep(p) ==
  /\ pc[p] = "wh_tier"
  /\ LET l == loc[p]
         tier == FindTierFromSubscription(l.event, NoFail)
         found == [l EXCEPT !.tier = tier]
     IN IF l.event.type = "subscription.created" /\ tier = NoTier
        THEN Respond(p, found)
        ELSE /\ pc' = [pc EXCEPT ![p] = IF l.event.type = "subscription.created"
                                        THEN "wh_grant" ELSE "wh_updsub"]
             /\ loc' = [loc EXCEPT ![p] = found]
             /\ UNCHANGED response
  /\ UNCHANGED <<provider, cache, tiers, settings, prev, used, members, connect>>

\* grantTierAccess: await this.memberRepository.update(member.id, {tier_id: tier.id})
GrantTierStep(p) ==
  /\ pc[p] = "wh_grant"
  /\ members' = GrantTierAccess(members, loc[p].member, loc[p].event, NoFail)
  /\ Respond(p, loc[p])
  /\ UNCHANGED <<provider, cache, tiers, settings, prev, used, connect>>

\* revokeTierAccess: await this.memberRepository.update(member.id, {tier_id: null})
RevokeTierStep(p) ==
  /\ pc[p] = "wh_revoke"
  /\ members' = RevokeTierAccess(members, loc[p].member, NoFail)
  /\ Respond(p, loc[p])
  /\ UNCHANGED <<provider, cache, tiers, settings, prev, used, connect>>

\* updateMemberSubscription: await this.memberRepository.update(member.id, updates)
UpdateSubscriptionStep(p) ==
  /\ pc[p] = "wh_updsub"
  /\ members' = UpdateMemberSubscription(members, loc[p].member, loc[p].event, NoFail)
  /\ Respond(p, loc[p])
  /\ UNCHANGED <<provider, cache, tiers, settings, prev, used, connect>>

\* the steps of a subscription handler
WebhookStep(p) ==
  \/ FindMemberStep(p)
  \/ UpdateStatusStep(p)
  \/ FindTierStep(p)
  \/ GrantTierStep(p)
  \/ RevokeTierStep(p)
  \/ UpdateSubscriptionStep(p)

\* ------------------------------------------------------------ provider drift
\* Between calls the provider's catalog changes under the cache (dashboard
\* edits): the record of the calls made so far is dropped.
Forget ==
  /\ Quiet
  /\ pc' = [p \in Procs |-> "idle"]
  /\ loc' = [p \in Procs |-> InitLoc]
  /\ prev' = NoCall
  /\ used.drifts < MaxDrift
  /\ used' = [used EXCEPT !.drifts = @ + 1]

ProviderArchivesProduct(i) ==
  /\ i \in DOMAIN provProducts
  /\ provProducts[i].active
  /\ Forget
  /\ provProducts' = [provProducts EXCEPT ![i].active = FALSE]
  /\ UNCHANGED <<provPrices, provCustomers, provCoupons, cache, tiers, settings, webhookVars, connect>>

ProviderArchivesPrice(i) ==
  /\ i \in DOMAIN provPrices
  /\ provPrices[i].active
  /\ Forget
  /\ provPrices' = [provPrices EXCEPT ![i].active = FALSE]
  /\ UNCHANGED <<provProducts, provCustomers, provCoupons, cache, tiers, settings, webhookVars, connect>>

DriftAmounts == {7}

ProviderEditsPrice(i, a) ==
  /\ i \in DOMAIN provPrices
  /\ provPrices[i].unit_amount # a
  /\ Forget
  /\ provPrices' = [provPrices EXCEPT ![i].unit_amount = a]
  /\ UNCHANGED <<provProducts, provCustomers, provCoupons, cache, tiers, settings, webhookVars, connect>>

\* a customer is deleted at the provider, or its record is gone altogether
ProviderDeletesCustomer(i, how) ==
  /\ i \in DOMAIN provCustomers
  /\ provCustomers[i].state = "live"
  /\ Forget
  /\ provCustomers' = [provCustomers EXCEPT ![i].state = how]
  /\ UNCHANGED <<provProducts, provPrices, provCoupons, cache, tiers, settings, webhookVars, connect>>

\* the publication is renamed
Titles == {<<"B">>, <<"N">>}

SettingsTitleChanges(t) ==
  /\ t # settings.title
  /\ Forget
  /\ settings' = [settings EXCEPT !.title = t]
  /\ UNCHANGED <<provider, cache, tiers, webhookVars, connect>>

\* ------------------------------------------------------------ stripe-connect
\* The values a session property or the s field of a decoded response holds:
\* undefined, null, or a state string.
Undefined == [kind |-> "undefined", mode |-> NoVal, randomState |-> NoVal]
Null == [kind |-> "null", mode |-> NoVal, randomState |-> NoVal]

Modes == {"live", "test"}
RandomStates == {"r1", "r2"}     \* randomBytes(16).toString('hex')

\* Buffer.from(JSON.stringify({mode, randomState})).toString('base64'): one
\* string per pair
EncodeState(mode, randomState) ==
  [kind |-> "string", mode |-> mode, randomState |-> randomState]

ClientId(mode) == IF mode = "live" THEN "dodo_live_client_id" ELSE "dodo_test_client_id"

NoCredentials == [public_key |-> NoVal, secret_key |-> NoVal, livemode |-> FALSE,
                  display_name |-> NoVal]
NoToken == [outcome |-> "none", carried |-> Undefined, stored |-> Undefined,
            credentials |-> NoCredentials]
NoConnect == [state |-> Undefined, authUrl |-> [client_id |-> NoVal, state |-> Undefined],
              token |-> NoToken]

\* getDodoConnectOAuthUrl once checkCanConnect has returned: the state is put
\* on the session and into the URL
GetDodoConnectOAuthUrl(mode, randomState) ==
  /\ LET state == EncodeState(mode, randomState)
     IN connect' = [connect EXCEPT !.state = state,
                                   !.authUrl = [client_id |-> ClientId(mode), state |-> state]]
  /\ UNCHANGED <<provider, cache, tiers, settings, members, response, pc, loc, prev, used>>

\* what getSessionProp answers for a property the session holds, or does not
GetSessionProp(stored) == IF stored = Undefined THEN {Undefined, Null} ELSE {stored}

\* the decoded responses: data.s is absent, null or a state string
TokenData ==
  [s : {Undefined, Null} \cup {EncodeState(m, r) : m \in Modes, r \in RandomStates},
   p : {"pk"}, a : {"sk"}, l : BOOLEAN, n : {"Acme"}]
\* encodedData: base64 of JSON, or of something JSON.parse rejects
EncodedData == [parses : BOOLEAN, data : TokenData]

\* getDodoConnectTokenData(encodedData, getSessionProp)
GetDodoConnectTokenData(encodedData) ==
  /\ IF ~encodedData.parses
     THEN connect' = [connect EXCEPT !.token = [NoToken EXCEPT !.outcome = "SyntaxError",
                                                               !.stored = connect.state]]
     ELSE \E state \in GetSessionProp(connect.state) :
            LET data == encodedData.data
            IN connect' = [connect EXCEPT !.token =
                 IF state # data.s
                 THEN [outcome |-> "NoPermissionError", carried |-> data.s,
                       stored |-> connect.state, credentials |-> NoCredentials]
                 ELSE [outcome |-> "credentials", carried |-> data.s,
                       stored |-> connect.state,
                       credentials |-> [public_key |-> data.p, secret_key |-> data.a,
                                        livemode |-> data.l, display_name |-> data.n]]]
  /\ UNCHANGED <<provider, cache, tiers, settings, members, response, pc, loc, prev, used>>

\* ------------------------------------------------------------ specifications
NoResponse ==
  [status |-> 0, handler |-> NoVal, genuine |-> FALSE, type |-> NoVal, customer |-> NoId]

Init ==
  /\ provProducts = <<>>
  /\ provPrices = <<>>
  /\ provCustomers = <<>>
  /\ provCoupons = <<>>
  /\ productRows = <<>>
  /\ priceRows = <<>>
  /\ customerRows = <<>>
  /\ offers = OfferData
  /\ tiers = TierData
  /\ settings = SettingsData
  /\ members = MemberData
  /\ pc = [p \in Procs |-> "idle"]
  /\ loc = [p \in Procs |-> InitLoc]
  /\ prev = NoCall
  /\ response = NoResponse
  /\ connect = NoConnect
  /\ used = [calls |-> 0, drifts |-> 0]

\* the steps of a getProductForTier call
ProductStep(p) ==
  \/ GetProductForTierRows(p)
  \/ GetProductForTierFetch(p)
  \/ GetProductForTierFetchFails(p)
  \/ CreateProductForTierCall(p)
  \/ CreateProductForTierFails(p)
  \/ CreateProductForTierAdd(p)

\* the steps of a getPriceForTierCadence call
PriceStep(p) ==
  \/ GetProductForTierRows(p)
  \/ GetProductForTierFetch(p)
  \/ GetProductForTierFetchFails(p)
  \/ CreateProductForTierCall(p)
  \/ CreateProductForTierFails(p)
  \/ CreateProductForTierAdd(p)
  \/ GetPriceRows(p)
  \/ GetPriceFetch(p)
  \/ GetPriceFetchFails(p)
  \/ GetPriceHeal(p)
  \/ CreatePriceForTierCadenceCall(p)
  \/ CreatePriceForTierCadenceFails(p)
  \/ CreatePriceForTierCadenceAdd(p)

Drift ==
  \/ \E i \in 1..MaxProducts : ProviderArchivesProduct(i)
  \/ \E i \in 1..MaxPrices : ProviderArchivesPrice(i)
  \/ \E i \in 1..MaxPrices, a \in DriftAmounts : ProviderEditsPrice(i, a)

\* one caller at a time: price resolution calls, one after the other
Next ==
  \/ \E c \in Cadences : StartPrice(1, "t1", c)
  \/ PriceStep(1)
  \/ Drift

Spec == Init /\ [][Next]_vars

CouponStep(p) ==
  \/ GetCouponForOfferRow(p)
  \/ GetCouponForOfferDetails(p)
  \/ CreateCouponForOfferCall(p)
  \/ CreateCouponForOfferFails(p)
  \/ CreateCouponForOfferEdit(p)

CustomerStep(p) ==
  \/ GetCustomerForMemberRows(p)
  \/ GetCustomerForMemberFetch(p)
  \/ GetCustomerForMemberFetchFails(p)
  \/ CreateCustomerForMemberCall(p)
  \/ CreateCustomerForMemberFails(p)
  \/ CreateCustomerForMemberAdd(p)

\* one caller at a time: checkout links for tiers
NextCheckout ==
  \/ \E o \in OfferIds \cup {NoVal}, m \in {"m1", NoVal}, e \in {"eve@x", NoVal} :
        StartLink(1, "t1", "month", o, m, e)
  \/ CouponStep(1)
  \/ CustomerStep(1)
  \/ PriceStep(1)
  \/ CreateCheckoutSessionCall(1)
  \/ CreateCheckoutSessionFails(1)
  \/ \E i \in 1..MaxCustomers, how \in {"deleted", "gone"} : ProviderDeletesCustomer(i, how)
  \/ \E i \in 1..MaxPrices : ProviderArchivesPrice(i)

SpecCheckout == Init /\ [][NextCheckout]_vars

\* the catalog the webhooks are projected through: customer 1 is member m1
\* (customer 2 has no CustomerLink row), price 1 is of tier t1 and price 2 of
\* tier t2 (price 3 has no PriceLink row)
InitWebhook ==
  /\ provProducts = <<[name |-> "Gold", active |-> TRUE], [name |-> "Silver", active |-> TRUE]>>
  /\ provPrices = <<ApiCreatePrice(TierPriceData(TierData["t1"], "month", 1)),
                     ApiCreatePrice(TierPriceData(TierData["t2"], "month", 2))>>
  /\ provCustomers = <<ApiCreateCustomer([email |-> "ann@x", name |-> "Ann"])>>
  /\ provCoupons = <<>>
  /\ productRows = <<ProductRow("t1", 1), ProductRow("t2", 2)>>
  /\ priceRows = <<TierPriceRow(provPrices[1], 1, 1, "month"),
                    TierPriceRow(provPrices[2], 2, 2, "month")>>
  /\ customerRows = <<CustomerRow("m1", 1, provCustomers[1])>>
  /\ offers = OfferData
  /\ tiers = TierData
  /\ settings = SettingsData
  /\ \E st \in {"free", "paid"}, sub \in BOOLEAN, t \in TierIds \cup {NoTier} :
       members = [MemberData EXCEPT !["m1"].status = st, !["m1"].subscribed = sub,
                                    !["m1"].tier_id = t]
  /\ pc = [p \in Procs |-> "idle"]
  /\ loc = [p \in Procs |-> InitLoc]
  /\ prev = NoCall
  /\ response = NoResponse
  /\ connect = NoConnect
  /\ used = [calls |-> 0, drifts |-> 0]

\* webhooks, one at a time
NextWebhook ==
  \/ \E ev \in Events, f \in SingleFailures :
        Webhook([body |-> ev, signature |-> SignatureFor(ev, WebhookSecret)], f)
  \/ \E ev \in ForgedBodies : \E sig \in ForgedSignatures(ev) :
        Webhook([body |-> ev, signature |-> sig], NoFail)

SpecWebhook == InitWebhook /\ [][NextWebhook]_vars

\* the member the interleaved events are about, before either is handled
InterleaveMembers ==
  [MemberData EXCEPT !["m1"].status = "paid", !["m1"].subscribed = TRUE,
                     !["m1"].tier_id = "t2"]

InitInterleave == InitWebhook /\ members = InterleaveMembers

\* two requests in flight: each handler resumes at its awaits in any order
NextInterleave ==
  \/ \E p \in Procs, ev \in SubscriptionEvents : StartWebhook(p, ev)
  \/ \E p \in Procs : WebhookStep(p)

SpecInterleave == InitInterleave /\ [][NextInterleave]_vars

\* the connect flow of one admin session
NextConnect ==
  \/ \E mode \in Modes, r \in RandomStates : GetDodoConnectOAuthUrl(mode, r)
  \/ \E encodedData \in EncodedData : GetDodoConnectTokenData(encodedData)

SpecConnect == Init /\ [][NextConnect]_vars

\* the steps of a getPriceForDonations call
DonationPriceStep(p) ==
  \/ GetPriceForDonationsRow(p)
  \/ RenameDonationPriceCall(p)
  \/ RenameDonationProductCall(p)
  \/ RenameDonationRowEdit(p)
  \/ RenameDonationFails(p)
  \/ GetProductForDonationsRows(p)
  \/ GetProductForDonationsFetch(p)
  \/ GetProductForDonationsFetchFails(p)
  \/ CreateProductForDonationsCall(p)
  \/ CreateProductForDonationsFails(p)
  \/ CreateProductForDonationsAdd(p)
  \/ CreatePriceForDonationsCall(p)
  \/ CreatePriceForDonationsFails(p)
  \/ CreatePriceForDonationsAdd(p)

\* empty tables; the donations currency is stored in either letter case
InitDonations ==
  /\ provProducts = <<>>
  /\ provPrices = <<>>
  /\ provCustomers = <<>>
  /\ provCoupons = <<>>
  /\ productRows = <<>>
  /\ priceRows = <<>>
  /\ customerRows = <<>>
  /\ offers = OfferData
  /\ tiers = TierData
  /\ \E c \in {"usd", "USD"}, a \in {50, 500} :
       settings = [SettingsData EXCEPT !.donations_currency = c,
                                       !.donations_suggested_amount = a]
  /\ members = MemberData
  /\ pc = [p \in Procs |-> "idle"]
  /\ loc = [p \in Procs |-> InitLoc]
  /\ prev = NoCall
  /\ response = NoResponse
  /\ connect = NoConnect
  /\ used = [calls |-> 0, drifts |-> 0]

\* publication titles of every length up to MaxTitle
LongTitles ==
  {[i \in 1..n |-> IF i % 2 = k THEN "a" ELSE "b"] : n \in 0..MaxTitle, k \in 0..1}

InitNickname ==
  /\ provProducts = <<>>
  /\ provPrices = <<>>
  /\ provCustomers = <<>>
  /\ provCoupons = <<>>
  /\ productRows = <<>>
  /\ priceRows = <<>>
  /\ customerRows = <<>>
  /\ offers = OfferData
  /\ tiers = TierData
  /\ \E t \in LongTitles : settings = [SettingsData EXCEPT !.title = t]
  /\ members = MemberData
  /\ pc = [p \in Procs |-> "idle"]
  /\ loc = [p \in Procs |-> InitLoc]
  /\ prev = NoCall
  /\ response = NoResponse
  /\ connect = NoConnect
  /\ used = [calls |-> 0, drifts |-> 0]

NextNickname == GetDonationPriceNicknameCall(1)

SpecNickname == InitNickname /\ [][NextNickname]_vars

\* one caller at a time: donation price resolution, one call after the other
NextDonationPrice ==
  \/ StartDonationPrice(1)
  \/ DonationPriceStep(1)
  \/ \E i \in 1..MaxProducts : ProviderArchivesProduct(i)
  \/ \E i \in 1..MaxPrices : ProviderArchivesPrice(i)
  \/ \E t \in Titles : SettingsTitleChanges(t)

SpecDonationPrice == InitDonations /\ [][NextDonationPrice]_vars

\* one caller at a time: donation checkout links
NextDonate ==
  \/ \E m \in {"m1", NoVal}, e \in {"eve@x", NoVal}, a \in BOOLEAN : StartDonate(1, m, e, a)
  \/ CustomerStep(1)
  \/ DonationPriceStep(1)
  \/ CreateDonationCheckoutSessionCall(1)
  \/ CreateDonationCheckoutSessionFails(1)
  \/ \E t \in Titles : SettingsTitleChanges(t)

SpecDonate == InitDonations /\ [][NextDonate]_vars

\* one caller at a time: coupon resolution for offers
NextCoupon ==
  \/ \E o \in OfferIds : StartCoupon(1, o)
  \/ CouponStep(1)

SpecCoupon == Init /\ [][NextCoupon]_vars

\* one caller at a time: price resolution builds the tier's products, the
\* provider archives one, the tier is renamed
NextRename ==
  \/ StartPrice(1, "t1", "month")
  \/ PriceStep(1)
  \/ \E i \in 1..MaxProducts : ProviderArchivesProduct(i)
  \/ \E i \in 1..MaxPrices : ProviderArchivesPrice(i)
  \/ \E n \in TierNames : StartRename(1, "t1", n)
  \/ UpdateNameRows(1)
  \/ UpdateNameCall(1)
  \/ UpdateNameFails(1)

SpecRename == Init /\ [][NextRename]_vars

\* the monthly price of t1 as an earlier call created it
EarlierPrice == ApiCreatePrice(TierPriceData(TierData["t1"], "month", 1))

\* the callers start on empty stores, or on the stores an earlier call for t1
\* and month left behind, its price archived at the provider since
InitRace ==
  /\ \E earlier \in BOOLEAN :
       /\ provProducts = IF earlier THEN <<ApiCreateProduct([name |-> TierData["t1"].name])>>
                                    ELSE <<>>
       /\ provPrices = IF earlier THEN <<[EarlierPrice EXCEPT !.active = FALSE]>> ELSE <<>>
       /\ productRows = IF earlier THEN <<ProductRow("t1", 1)>> ELSE <<>>
       /\ priceRows = IF earlier THEN <<TierPriceRow(EarlierPrice, 1, 1, "month")>> ELSE <<>>
  /\ provCustomers = <<>>
  /\ provCoupons = <<>>
  /\ customerRows = <<>>
  /\ offers = OfferData
  /\ tiers = TierData
  /\ settings = SettingsData
  /\ members = MemberData
  /\ pc = [p \in Procs |-> "idle"]
  /\ loc = [p \in Procs |-> InitLoc]
  /\ prev = NoCall
  /\ response = NoResponse
  /\ connect = NoConnect
  /\ used = [calls |-> 0, drifts |-> 0]

\* one caller at a time: customer resolution for members, the provider
\* deleting a customer now and then
NextCustomer ==
  \/ \E m \in MemberIds : StartCustomer(1, m)
  \/ CustomerStep(1)
  \/ \E i \in 1..MaxCustomers, how \in {"deleted", "gone"} : ProviderDeletesCustomer(i, how)

SpecCustomer == Init /\ [][NextCustomer]_vars

\* one caller at a time: product resolution for tiers, the provider
\* archiving a product now and then
NextProduct ==
  \/ \E t \in TierIds : StartProduct(1, t)
  \/ ProductStep(1)
  \/ \E i \in 1..MaxProducts : ProviderArchivesProduct(i)

SpecProduct == Init /\ [][NextProduct]_vars

\* one caller at a time: every operation that reads or writes the cache
\* tables, the provider archiving a price and the publication being renamed
\* in between
NextCatalog ==
  \/ \E o \in {"o1", NoVal}, m \in {"m1", NoVal} : StartLink(1, "t1", "month", o, m, NoVal)
  \/ StartDonate(1, "m1", NoVal, TRUE)
  \/ \E n \in TierNames : StartRename(1, "t1", n)
  \/ CouponStep(1)
  \/ CustomerStep(1)
  \/ PriceStep(1)
  \/ DonationPriceStep(1)
  \/ CreateCheckoutSessionCall(1)
  \/ CreateCheckoutSessionFails(1)
  \/ CreateDonationCheckoutSessionCall(1)
  \/ CreateDonationCheckoutSessionFails(1)
  \/ UpdateNameRows(1)
  \/ UpdateNameCall(1)
  \/ UpdateNameFails(1)
  \/ \E i \in 1..MaxPrices : ProviderArchivesPrice(i)
  \/ \E t \in Titles : SettingsTitleChanges(t)

\* the suggested amount is the one of SettingsData, the currency is stored in
\* either letter case
InitCatalog == InitDonations /\ settings.donations_suggested_amount = 500

SpecCatalog == InitCatalog /\ [][NextCatalog]_vars

\* the second tier is a free tier
InitTiers ==
  /\ provProducts = <<>>
  /\ provPrices = <<>>
  /\ provCustomers = <<>>
  /\ provCoupons = <<>>
  /\ productRows = <<>>
  /\ priceRows = <<>>
  /\ customerRows = <<>>
  /\ offers = OfferData
  /\ tiers = [TierData EXCEPT !["t2"].type = "free"]
  /\ settings = SettingsData
  /\ members = MemberData
  /\ pc = [p \in Procs |-> "idle"]
  /\ loc = [p \in Procs |-> InitLoc]
  /\ prev = NoCall
  /\ response = NoResponse
  /\ connect = NoConnect
  /\ used = [calls |-> 0, drifts |-> 0]

\* one reaction or call at a time: tier events for a paid and a free tier, a
\* rename of the free tier, price resolutions for the paid tier, the provider
\* archiving a price
NextTiers ==
  \/ \E t \in TierIds, ev \in {"created", "price"}, a \in NewAmounts :
        StartTierEvent(1, t, ev, a)
  \/ StartRename(1, "t2", "Platinum")
  \/ StartPrice(1, "t1", "month")
  \/ PriceStep(1)
  \/ \E i \in 1..MaxPrices : ProviderArchivesPrice(i)

SpecTiers == InitTiers /\ [][NextTiers]_vars

\* one reaction or call at a time, every provider call answering and the
\* provider account changed by nobody else
NextSteady ==
  \/ \E ev \in {"created", "price"}, a \in NewAmounts : StartTierEvent(1, "t1", ev, a)
  \/ \E c \in Cadences : StartPrice(1, "t1", c)
  \/ GetProductForTierRows(1)
  \/ GetProductForTierFetch(1)
  \/ CreateProductForTierCall(1)
  \/ CreateProductForTierAdd(1)
  \/ GetPriceRows(1)
  \/ GetPriceFetch(1)
  \/ CreatePriceForTierCadenceCall(1)
  \/ CreatePriceForTierCadenceAdd(1)

SpecSteady == Init /\ [][NextSteady]_vars

\* two callers whose steps interleave
NextRace ==
  \/ \E p \in Procs, c \in Cadences : pc[p] = "idle" /\ StartPrice(p, "t1", c)
  \/ \E p \in Procs : PriceStep(p)

SpecRace == InitRace /\ [][NextRace]_vars

\* ------------------------------------------------------------ claims
Returns(p, op) == pc[p] = "done" /\ loc[p].op = op /\ loc[p].error = NoVal

\* the tier a provider product belongs to, by its ProductLink rows
TiersOfProduct(id) ==
  {productRows[i].product_id : i \in {j \in DOMAIN productRows :
                                        productRows[j].dodo_product_id = id}}

C2_DisagreedRowsInactive ==
  (pc[1] = "done" /\ loc[1].op = "price") =>
     \A r \in loc[1].disagreed : priceRows[r].active = FALSE

\* C3: with no change made on the provider's side, the provider never holds two
\* active prices of one tier with the same currency, interval and amount.
C3_NoDuplicateActivePrices ==
  used.drifts = 0 =>
    \A i, j \in DOMAIN provPrices :
      (/\ i # j
       /\ provPrices[i].active /\ provPrices[j].active
       /\ provPrices[i].currency = provPrices[j].currency
       /\ provPrices[i].recurring = provPrices[j].recurring
       /\ provPrices[i].unit_amount = provPrices[j].unit_amount)
      => TiersOfProduct(provPrices[i].product_id)
           \cap TiersOfProduct(provPrices[j].product_id) = {}

\* C4: nothing excludes two interleaved first-time calls from each other: when
\* both have read zero ProductLink rows (zero PriceLink rows) for the same
\* subject and both return, each has created its own product (its own price).
C4_RaceCreatesDuplicates ==
  \A p, q \in Procs :
    (p # q /\ Returns(p, "price") /\ Returns(q, "price")
       /\ loc[p].tier = loc[q].tier) =>
      /\ (loc[p].sawNoProduct /\ loc[q].sawNoProduct) =>
            /\ loc[p].nProd >= 1 /\ loc[q].nProd >= 1
            /\ Cardinality({i \in DOMAIN productRows :
                              productRows[i].product_id = loc[p].tier}) >= 2
      /\ (loc[p].sawNoPrice /\ loc[q].sawNoPrice /\ loc[p].cadence = loc[q].cadence) =>
            /\ loc[p].nPrice = 1 /\ loc[q].nPrice = 1
            /\ loc[p].result # loc[q].result

\* two products, two prices and two rows of each for one tier and cadence
C4_Witness ==
  /\ Returns(1, "price") /\ Returns(2, "price")
  /\ loc[1].tier = loc[2].tier /\ loc[1].cadence = loc[2].cadence
  /\ loc[1].sawNoProduct /\ loc[2].sawNoProduct
  /\ loc[1].sawNoPrice /\ loc[2].sawNoPrice
  /\ ~loc[1].lookupFailed /\ ~loc[2].lookupFailed
  /\ Len(provProducts) = 2 /\ Len(productRows) = 2
  /\ Len(provPrices) = 2 /\ Len(priceRows) = 2
  /\ provPrices[1].active /\ provPrices[2].active
  /\ provPrices[1].unit_amount = provPrices[2].unit_amount
  /\ provPrices[1].recurring = provPrices[2].recurring

\* C5: the session request of getPaymentLink never carries both a coupon and a
\* trial period; when a coupon id was resolved the request carries that coupon
\* and no trial, whatever the tier's trial days.
C5_CouponExcludesTrial ==
  \A p \in Procs :
    (loc[p].op = "link" /\ loc[p].session.sent) =>
      /\ ~(loc[p].session.has_coupon /\ loc[p].session.has_trial)
      /\ loc[p].coupon # NoId =>
           /\ loc[p].session.has_coupon
           /\ loc[p].session.coupon_id = loc[p].coupon
           /\ ~loc[p].session.has_trial
           /\ loc[p].session.trial_period_days = 0

\* a session with a coupon for a tier that has trial days
C5_Witness ==
  /\ pc[1] = "done" /\ loc[1].op = "link" /\ loc[1].session.sent
  /\ loc[1].coupon # NoId
  /\ tiers[loc[1].tier].trialDays # 0
  /\ loc[1].session.coupon_id = loc[1].coupon
  /\ ~loc[1].session.has_trial

OfferMismatch(l) ==
  l.op = "link" /\ l.offer # NoVal /\ offers[l.offer].tier # l.tier

\* C6: a getPaymentLink call with an offer of another tier ends at once with
\* BadRequest, sends no session, and the step that makes the call leaves the
\* provider and the CustomerLink, ProductLink, PriceLink and Offer tables as
\* they were.
C6_MismatchRejected ==
  [][\A p \in Procs :
       OfferMismatch(loc[p])' =>
         /\ pc'[p] = "done"
         /\ loc'[p].error = "badrequest"
         /\ ~loc'[p].session.sent
         /\ (loc'[p] # loc[p] \/ pc'[p] # pc[p]) =>
              UNCHANGED <<provider, cache>>]_vars

\* a rejected call: offer o3 is of tier t2, the link is asked for tier t1
C6_Witness ==
  /\ pc[1] = "done" /\ OfferMismatch(loc[1])
  /\ loc[1].error = "badrequest"
  /\ loc[1].member # NoVal

\* C7: a webhook whose signature is not the provider's signature of its body
\* (missing, of another length, made with another key or for another body) is
\* answered 400, reaches no handler and leaves every member as it was.
C7_ForgedRejected ==
  [][(response'.status # 0 /\ ~response'.genuine) =>
       /\ response'.status = 400
       /\ response'.handler = NoVal
       /\ members' = members]_vars

\* a rejected webhook that, had it been accepted, would have changed a member
C7_Witness ==
  /\ response.status = 400 /\ ~response.genuine /\ response.handler = NoVal
  /\ response.type = "subscription.created"
  /\ members["m1"].status = "free"

\* C8: every webhook that carries the provider's signature is answered 200.
C8_GenuineAcknowledged ==
  response.genuine => response.status = 200

\* the member state (status, subscribed, tier) after the events es, in order,
\* with every repository call succeeding
RECURSIVE After(_, _)
After(ms, es) ==
  IF es = <<>> THEN ms
  ELSE After(RouteWebhookEvent(ms, Head(es), NoFail).members, Tail(es))

Entitlement(m) == <<m.status, m.subscribed, m.tier_id>>

\* C9: subscription.created and an active subscription.updated for one
\* customer leave the member in the same state in either order.
C9_CreatedUpdatedCommute ==
  \A c, u \in SubscriptionEvents :
    (c.type = "subscription.created" /\ u.type = "subscription.updated"
       /\ c.status = "active" /\ u.status = "active" /\ c.customer = u.customer) =>
      \A m \in MemberIds :
        Entitlement(After(members, <<c, u>>)[m]) = Entitlement(After(members, <<u, c>>)[m])

\* C10: under the same repository conditions, handling an event a second time
\* leaves every member as the first handling left it.
C10_ReplayIdempotent ==
  \A ev \in Events, f \in Oracles :
    LET once == RouteWebhookEvent(members, ev, f).members
    IN RouteWebhookEvent(once, ev, f).members = once

\* an event was handled and changed the member it is replayed on
C10_Witness ==
  /\ response.status = 200 /\ response.genuine
  /\ response.type = "subscription.updated"
  /\ members["m1"].status = "paid" /\ members["m1"].tier_id = "t2"
  /\ members["m1"].email = "new@x"

\* the members a customer id is linked to by CustomerLink rows
LinkedMembers(customerId) ==
  {customerRows[i].member_id : i \in {j \in DOMAIN customerRows :
                                        customerRows[j].customer_id = customerId}}

\* the tier reached from a price id over its PriceLink row and the ProductLink
\* row of that row's product; NoTier when the chain breaks
ChainTier(priceId) ==
  LET products == {priceRows[i].dodo_product_id :
                     i \in {j \in DOMAIN priceRows : priceRows[j].dodo_price_id = priceId}}
      reached == {productRows[i].product_id :
                    i \in {j \in DOMAIN productRows :
                             productRows[j].dodo_product_id \in products}}
  IN IF Cardinality(reached) = 1 /\ reached \subseteq DOMAIN tiers
     THEN CHOOSE t \in reached : TRUE
     ELSE NoTier

\* C11: subscription.created, and subscription.updated with status active, for
\* a linked customer leave the member paid, subscribed and on the tier of the
\* event's price (on its former tier when the chain breaks).
C11_ActiveProjection ==
  \A ev \in SubscriptionEvents :
    (ev.type = "subscription.created"
       \/ (ev.type = "subscription.updated" /\ ev.status = "active")) =>
      \A m \in LinkedMembers(ev.customer) :
        LET after == RouteWebhookEvent(members, ev, NoFail).members[m]
        IN /\ after.status = "paid"
           /\ after.subscribed = TRUE
           /\ after.tier_id = IF ChainTier(ev.price_id) # NoTier
                               THEN ChainTier(ev.price_id)
                               ELSE members[m].tier_id

\* C12: subscription.cancelled, and subscription.updated with a status other
\* than active, for a linked customer leave the member free, not subscribed
\* and without a tier.
C12_CancelProjection ==
  \A ev \in SubscriptionEvents :
    (ev.type = "subscription.cancelled"
       \/ (ev.type = "subscription.updated" /\ ev.status # "active")) =>
      \A m \in LinkedMembers(ev.customer) :
        LET after == RouteWebhookEvent(members, ev, NoFail).members[m]
        IN /\ after.status = "free"
           /\ after.subscribed = FALSE
           /\ after.tier_id = NoTier

\* C13: a signed webhook of a recognized type whose customer id has no
\* CustomerLink row changes no member and is answered 200.
C13_UnknownCustomerIgnored ==
  [][(/\ response'.genuine
      /\ response'.type \in RecognizedTypes
      /\ response'.customer # NoId
      /\ LinkedMembers(response'.customer) = {}) =>
       /\ members' = members
       /\ response'.status = 200]_vars

\* a payment for an unlinked customer was acknowledged although member m1 is
\* there to be paid
C13_Witness ==
  /\ response.genuine /\ response.status = 200
  /\ response.type = "payment.succeeded"
  /\ response.customer = 2 /\ LinkedMembers(2) = {}
  /\ members["m1"].status = "free" /\ members["m2"].status = "free"

\* C14: in a getDonationPaymentLink call without a member, or with
\* isAuthenticated false, getCustomerForMember never runs, the provider's
\* customers and the CustomerLink table stay as they are, and the session
\* request carries no customer id.
C14_UnauthenticatedNoCustomer ==
  [][\A p \in Procs :
       (loc'[p].op = "donate" /\ (loc'[p].member = NoVal \/ ~loc'[p].auth)) =>
         /\ pc'[p] \notin {"cu_read", "cu_fetch", "cu_create", "cu_add"}
         /\ loc'[p].customer = NoId
         /\ loc'[p].session.sent => loc'[p].session.customer_id = NoId
         /\ UNCHANGED <<provCustomers, customerRows>>]_vars

\* an unauthenticated donation for a member who has a live CustomerLink
C14_Witness ==
  /\ pc[1] = "done" /\ loc[1].op = "donate" /\ loc[1].error = NoVal
  /\ loc[1].member = "m1" /\ ~loc[1].auth
  /\ loc[1].session.sent /\ loc[1].session.customer_id = NoId
  /\ \E i \in DOMAIN customerRows :
       /\ customerRows[i].member_id = "m1"
       /\ provCustomers[customerRows[i].customer_id].state = "live"

\* C15: when getPriceForDonations returns the id of a cached DodoPrice row, the
\* provider's price of that id is active.
C15_CachedDonationPriceLive ==
  (Returns(1, "dprice") /\ loc[1].drow # NoId) =>
     provPrices[loc[1].result].active

\* C16: a getPriceForDonations call creates at most one product and one price;
\* called again at once with the settings unchanged it returns the same price
\* id and creates nothing.
C16_DonationPriceIdempotent ==
  (Returns(1, "dprice") /\ ~loc[1].lookupFailed) =>
     /\ loc[1].nProd <= 1
     /\ loc[1].nPrice <= 1
     /\ (prev.op = "dprice" /\ prev.clean) =>
          (loc[1].result = prev.result /\ loc[1].nProd = 0 /\ loc[1].nPrice = 0)

\* C18: a getPriceForDonations call that set out to rename a matched price
\* returns that price's id without an error and creates nothing, wherever the
\* rename failed.
C18_RenameBestEffort ==
  \A p \in Procs :
    (pc[p] = "done" /\ loc[p].op = "dprice" /\ loc[p].renamed # NoVal) =>
      /\ loc[p].error = NoVal
      /\ loc[p].drow \in DOMAIN priceRows
      /\ loc[p].result = priceRows[loc[p].drow].dodo_price_id
      /\ loc[p].nPrice = 0 /\ loc[p].nProd = 0

\* the product rename failed after the price was renamed at the provider: the
\* row keeps the old nickname and its id is returned
C18_Witness ==
  /\ pc[1] = "done" /\ loc[1].op = "dprice"
  /\ loc[1].renamed = "dn_rename_product"
  /\ loc[1].error = NoVal /\ loc[1].result # NoId
  /\ provPrices[loc[1].result].nickname = GetDonationPriceNickname(settings.title)
  /\ priceRows[loc[1].drow].nickname # GetDonationPriceNickname(settings.title)

\* C17: getDonationPriceNickname returns the first 250 characters of
\* 'Support ' + title: never more than 250, exactly 250 when that string is
\* longer, the whole string otherwise.
C17_NicknameTruncated ==
  \A p \in Procs :
    (pc[p] = "done" /\ loc[p].op = "nickname") =>
      LET full == SupportPrefix \o settings.title
          nickname == loc[p].nickname
      IN /\ Len(nickname) <= 250
         /\ Len(full) > 250 => Len(nickname) = 250
         /\ Len(full) <= 250 => Len(nickname) = Len(full)
         /\ \A i \in 1..Len(nickname) : nickname[i] = full[i]

\* a title of 243 characters or more: 'Support ' + title is cut
C17_Witness ==
  /\ pc[1] = "done" /\ loc[1].op = "nickname"
  /\ Len(SupportPrefix \o settings.title) > 250
  /\ Len(loc[1].nickname) = 250

\* C19: updateNameForTierProducts issues a rename for every ProductLink row of
\* the tier, also when the rename of one of them fails.
C19_RenameAttemptsEveryRow ==
  \A p \in Procs :
    (pc[p] = "done" /\ loc[p].op = "rename") =>
      loc[p].attempted = Len(ProductRowsOf(loc[p].tier))

\* the provider coupon is the one the offer describes
CouponOfOffer(coupon, offer) ==
  /\ coupon.discount_type = IF offer.type = "percent" THEN "percentage" ELSE "fixed_amount"
  /\ coupon.discount_value = offer.amount
  /\ offer.type # "percent" => coupon.currency = offer.currency
  /\ coupon.duration = offer.duration
  /\ offer.duration = "repeating" => coupon.duration_in_months = offer.duration_in_months

\* C20: getCouponForOffer for an offer that is not a trial returns the coupon
\* id stored on the offer; when none was stored it has created exactly one
\* coupon, as the offer describes it, and stored its id; when one was stored
\* it returns that id and creates none. A stored id is never replaced.
C20_CouponResolveOrCreate ==
  /\ [](\A p \in Procs :
         (pc[p] = "done" /\ loc[p].op = "coupon" /\ loc[p].error = NoVal
            /\ offers[loc[p].offer].type # "trial") =>
           /\ loc[p].result # NoId
           /\ loc[p].result = offers[loc[p].offer].dodo_coupon_id
           /\ CouponOfOffer(provCoupons[loc[p].result], offers[loc[p].offer])
           /\ loc[p].stored = NoId => loc[p].nCoupon = 1
           /\ loc[p].stored # NoId =>
                (loc[p].nCoupon = 0 /\ loc[p].result = loc[p].stored)
           /\ \A o \in OfferIds \ {loc[p].offer} :
                offers[o].dodo_coupon_id # loc[p].result)
  /\ [][\A o \in OfferIds :
          offers[o].dodo_coupon_id # NoId =>
            offers'[o].dodo_coupon_id = offers[o].dodo_coupon_id]_vars

\* a second call for the fixed-amount offer, after a call for the percent offer
C20_Witness ==
  /\ pc[1] = "done" /\ loc[1].op = "coupon" /\ loc[1].error = NoVal
  /\ loc[1].offer = "o3" /\ loc[1].stored # NoId /\ loc[1].result = loc[1].stored
  /\ offers["o1"].dodo_coupon_id # NoId
  /\ Len(provCoupons) = 2
  /\ provCoupons[loc[1].result].discount_type = "fixed_amount"
  /\ provCoupons[loc[1].result].currency = "usd"

\* C21: an offer whose discount kind is trial never gets a coupon: a
\* getCouponForOffer call for it never reaches offersAPI.getOffer or the
\* provider's createCoupon, creates nothing, returns none, and the offer's
\* dodo_coupon_id stays empty; getPaymentLink with such an offer does not call
\* getCouponForOffer at all.
C21_TrialOffersNoCoupon ==
  \A o \in OfferIds :
    offers[o].type = "trial" =>
      /\ offers[o].dodo_coupon_id = NoId
      /\ \A p \in Procs :
           loc[p].offer = o =>
             /\ pc[p] \notin {"co_offer", "co_create", "co_edit"}
             /\ loc[p].nCoupon = 0 /\ loc[p].newCoupon = NoId /\ loc[p].coupon = NoId
             /\ Returns(p, "coupon") => loc[p].result = NoId
      /\ \A m \in MemberIds \cup {NoVal}, c \in Cadences :
           LET nx == LinkEntry([InitLoc EXCEPT !.op = "link", !.tier = offers[o].tier,
                                               !.cadence = c, !.offer = o, !.member = m])
           IN nx.pc # "co_read" /\ nx.loc.coupon = NoId

\* getCouponForOffer has returned for the trial offer o2, next to an offer
\* that did get its coupon
C21_Witness ==
  /\ Returns(1, "coupon") /\ loc[1].offer = "o2"
  /\ offers["o2"].type = "trial"
  /\ offers["o1"].dodo_coupon_id # NoId

\* the first candidate of a scan that the provider reports as not deleted,
\* leaving out the candidates whose lookup threw; NoId when there is none
FirstLiveCustomer(rows, failed) ==
  LET ok == {k \in DOMAIN rows : rows[k] \notin failed /\ provCustomers[rows[k]].state = "live"}
  IN IF ok = {} THEN NoId ELSE rows[CHOOSE k \in ok : \A j \in ok : k <= j]

\* C22: getCustomerForMember returns the first CustomerLink candidate of the
\* member that the provider reports as not deleted, skipping candidates whose
\* lookup throws or that are deleted or not found; only when none verifies does
\* it create one provider customer from the member's email and name and add
\* one CustomerLink row for it; called again at once for the same member it
\* returns the same id and creates nothing.
C22_CustomerResolveOrCreate ==
  Returns(1, "customer") =>
    LET l == loc[1]
        rows == CustomerRowsOf(l.member)
        old == IF l.nCustomer = 0 THEN rows ELSE SubSeq(rows, 1, Len(rows) - 1)
    IN /\ l.nCustomer <= 1
       /\ l.nCustomer = 0 =>
            /\ l.result # NoId
            /\ l.result = FirstLiveCustomer(old, l.failedCustomers)
       /\ l.nCustomer = 1 =>
            /\ FirstLiveCustomer(old, l.failedCustomers) = NoId
            /\ l.result = Len(provCustomers)
            /\ rows # <<>> /\ rows[Len(rows)] = l.result
            /\ customerRows[Len(customerRows)] =
                  CustomerRow(l.member, l.result, provCustomers[l.result])
            /\ provCustomers[l.result].email = members[l.member].email
            /\ provCustomers[l.result].name = members[l.member].name
            /\ provCustomers[l.result].state = "live"
            /\ Cardinality({i \in DOMAIN customerRows :
                              customerRows[i].customer_id = l.result}) = 1
       /\ (prev.op = "customer" /\ prev.result # NoId /\ prev.member = l.member) =>
            (l.result = prev.result /\ l.nCustomer = 0)

\* the second call of a pair returns the id of the first whenever no lookup
\* threw in either call
C22_SameIdWhenLookupsAnswer ==
  (Returns(1, "customer") /\ prev.op = "customer" /\ prev.clean
     /\ prev.member = loc[1].member /\ ~loc[1].lookupFailed) =>
    (loc[1].result = prev.result /\ loc[1].nCustomer = 0)

\* the first candidate of a scan that the provider reports active, leaving
\* out the candidates whose lookup threw; NoId when there is none
FirstActiveProduct(rows, failed) ==
  LET ok == {k \in DOMAIN rows : rows[k] \notin failed /\ provProducts[rows[k]].active}
  IN IF ok = {} THEN NoId ELSE rows[CHOOSE k \in ok : \A j \in ok : k <= j]

\* C23: getProductForTier returns the id of the first ProductLink candidate of
\* the tier, in scan order, that the provider reports active; a candidate whose
\* fetch throws or that is inactive is skipped and the scan goes on; a product
\* named after the tier and one ProductLink row for it are created only when
\* no candidate verifies.
C23_ProductResolveOrCreate ==
  Returns(1, "product") =>
    LET l == loc[1]
        rows == ProductRowsOf(l.tier)
        old == IF l.nProd = 0 THEN rows ELSE SubSeq(rows, 1, Len(rows) - 1)
    IN /\ l.nProd <= 1
       /\ l.nProd = 0 =>
            /\ l.result # NoId
            /\ l.result = FirstActiveProduct(old, l.failedProducts)
       /\ l.nProd = 1 =>
            /\ FirstActiveProduct(old, l.failedProducts) = NoId
            /\ l.result = Len(provProducts)
            /\ rows # <<>> /\ rows[Len(rows)] = l.result
            /\ productRows[Len(productRows)] = ProductRow(l.tier, l.result)
            /\ provProducts[l.result] = [name |-> tiers[l.tier].name, active |-> TRUE]
            /\ Cardinality({i \in DOMAIN productRows :
                              productRows[i].dodo_product_id = l.result}) = 1

\* the tier's first product is archived, its second is active, and the call
\* returned the second without creating anything
C23_Witness ==
  /\ Returns(1, "product") /\ loc[1].tier = "t1"
  /\ ProductRowsOf("t1") = <<1, 2>>
  /\ ~provProducts[1].active /\ provProducts[2].active
  /\ loc[1].result = 2 /\ loc[1].nProd = 0

\* C24: no step of any reconciliation operation removes a CustomerLink,
\* ProductLink or PriceLink row or changes a field of an existing one, except
\* the active flag and the nickname of a PriceLink row; every row keeps its
\* provider id.
C24_CacheAppendOnly ==
  [][/\ Len(customerRows') >= Len(customerRows)
     /\ \A i \in DOMAIN customerRows : customerRows'[i] = customerRows[i]
     /\ Len(productRows') >= Len(productRows)
     /\ \A i \in DOMAIN productRows : productRows'[i] = productRows[i]
     /\ Len(priceRows') >= Len(priceRows)
     /\ \A i \in DOMAIN priceRows :
          [priceRows'[i] EXCEPT !.active = priceRows[i].active,
                                !.nickname = priceRows[i].nickname] = priceRows[i]]_vars

\* rows of all three tables exist; a checkout has switched a PriceLink row
\* off and added a second row next to it
C24_Witness ==
  /\ Returns(1, "link")
  /\ customerRows # <<>> /\ productRows # <<>>
  /\ Len(priceRows) = 2
  /\ ~priceRows[1].active /\ priceRows[2].active
  /\ priceRows[1].dodo_price_id = 1 /\ priceRows[2].dodo_price_id = 2

\* C25: when a provider create call fails inside getPriceForTierCadence the
\* call ends with the error and no result, no row exists for an artifact the
\* provider does not hold, and the failed call has persisted nothing: neither
\* a ProductLink row for a product it created on the way nor a PriceLink row.
C25_MutationFailureAborts ==
  (pc[1] = "done" /\ loc[1].op = "price" /\ loc[1].error = "provider") =>
    /\ loc[1].result = NoId
    /\ \A i \in DOMAIN productRows : productRows[i].dodo_product_id \in DOMAIN provProducts
    /\ \A i \in DOMAIN priceRows : priceRows[i].dodo_price_id \in DOMAIN provPrices
    /\ loc[1].nPrice = 0
    /\ loc[1].nProd = 0

\* an active PriceLink row of the tier for the cadence at the tier's current
\* currency and amount, whose provider price agrees
VerifiedPriceLink(t, c) ==
  \E i \in DOMAIN priceRows :
    /\ priceRows[i].dodo_product_id \in Range(ProductRowsOf(t))
    /\ PriceRowMatches(priceRows[i], priceRows[i].dodo_product_id,
                       ToLowerCase(tiers[t].currency), c, GetPrice(tiers[t], c))
    /\ PriceVerified(provPrices[priceRows[i].dodo_price_id],
                     ToLowerCase(tiers[t].currency), GetPrice(tiers[t], c), c)

\* C26: the reaction to a tier-created or tier-price-changed event for a paid
\* tier resolves the price for month and then for year: the year resolution
\* runs with a verified month PriceLink in place, and when the reaction
\* returns a verified PriceLink exists for both cadences at the tier's current
\* amounts; for a tier that is not paid these reactions and the tier-renamed
\* reaction end at once: no provider call, no cache write.
C26_TierReactionsPaidOnly ==
  \A p \in Procs :
    LET l == loc[p]
    IN /\ (l.op = "tier" /\ tiers[l.tier].type = "paid") =>
            /\ (pc[p] # "done" /\ l.cadence = "year") => VerifiedPriceLink(l.tier, "month")
            /\ Returns(p, "tier") =>
                 (VerifiedPriceLink(l.tier, "month") /\ VerifiedPriceLink(l.tier, "year"))
       /\ \A t \in TierIds :
            tiers[t].type # "paid" =>
              /\ ProductRowsOf(t) = <<>>
              /\ (l.op \in {"tier", "rename"} /\ l.tier = t) =>
                   /\ pc[p] = "done" /\ l.error = NoVal
                   /\ l.nProd = 0 /\ l.nPrice = 0 /\ l.attempted = 0

\* the reaction to a price change of the paid tier has returned with both
\* prices created at the new amounts, after the free tier was created,
\* renamed and left alone
C26_Witness ==
  /\ Returns(1, "tier") /\ loc[1].tier = "t1" /\ loc[1].nPrice = 2
  /\ tiers["t1"].monthly = 6
  /\ tiers["t2"].name # TierData["t2"].name
  /\ ProductRowsOf("t2") = <<>>

\* the active PriceLink rows of a tier for a cadence
ActivePriceLinks(t, c) ==
  {i \in DOMAIN priceRows :
     /\ priceRows[i].active /\ priceRows[i].type = "recurring"
     /\ priceRows[i].interval = c
     /\ priceRows[i].dodo_product_id \in Range(ProductRowsOf(t))}

\* C27: with reactions and price resolutions run one after the other and no
\* provider call failing, each tier and cadence has at most one PriceLink row
\* with active = true (a price change leaves no active row for the old
\* amount), and at most one donation PriceLink row is active.
C27_SingleActionablePrice ==
  /\ \A t \in TierIds, c \in Cadences : Cardinality(ActivePriceLinks(t, c)) <= 1
  /\ Cardinality({i \in DOMAIN priceRows :
                    priceRows[i].type = "donation" /\ priceRows[i].active}) <= 1

\* C28: a customer.updated event for a customer linked to a member, every call
\* of the handler answering, sets the member's email and name to the event's
\* when at least one of them differs and leaves every other field and every
\* other member alone; when both match the members stay as they are.
C28_CustomerUpdatedProjection ==
  \A ev \in CustomerEvents :
    LET m == FindMemberFromCustomerId(members, ev.customer)
        out == RouteWebhookEvent(members, ev, NoFail)
    IN (ev.type = "customer.updated" /\ m # NoVal) =>
         /\ ~out.threw
         /\ IF members[m].email # ev.email \/ members[m].name # ev.name
            THEN out.members = [members EXCEPT ![m].email = ev.email, ![m].name = ev.name]
            ELSE out.members = members

\* a customer.updated event has renamed the paid member m1 and left the
\* email, the status, the subscribed flag and the tier as they were
C28_Witness ==
  /\ response.type = "customer.updated" /\ response.status = 200
  /\ response.genuine /\ response.customer = 1
  /\ members["m1"].name = "Anna" /\ members["m1"].email = "ann@x"
  /\ members["m1"].status = "paid" /\ members["m1"].subscribed
  /\ members["m1"].tier_id = "t1"

\* the member a payment event is expected to act on: the one linked to its
\* customer id, otherwise the one with the email on the payload
ExpectedPaymentMember(ms, ev) ==
  IF ev.customer # NoId /\ FindMemberFromCustomerId(ms, ev.customer) # NoVal
  THEN FindMemberFromCustomerId(ms, ev.customer)
  ELSE IF ev.customer_email # NoVal THEN RepoGetByEmail(ms, ev.customer_email)
  ELSE NoVal

\* C29: a payment.succeeded event, and an invoice.payment_succeeded event
\* with the same fields, act on the member linked to the event's customer id
\* or, when that path finds nobody (no customer id, or one without a
\* CustomerLink row), on the member whose email is on the payload: that
\* member becomes paid; payment.failed and invoice.payment_failed events
\* change no member.
C29_PaymentMemberResolution ==
  \A ev \in PaymentEvents :
    LET m == ExpectedPaymentMember(members, ev)
        out == RouteWebhookEvent(members, ev, NoFail)
    IN /\ ~out.threw
       /\ ev.type \in {"payment.succeeded", "invoice.payment_succeeded"} =>
            out.members = IF m = NoVal THEN members
                          ELSE [members EXCEPT ![m].status = "paid"]
       /\ ev.type \in {"payment.failed", "invoice.payment_failed"} =>
            out.members = members

\* C30: the session request of getPaymentLink carries the offer's amount as
\* trial days when the offer is of the trial kind (not the tier's trial
\* days), the tier's trial days when there is no offer, and no trial days
\* when a coupon id was resolved for an offer of another kind.
C30_TrialDaysSelection ==
  \A p \in Procs :
    LET l == loc[p]
        days == IF l.offer = NoVal THEN tiers[l.tier].trialDays ELSE offers[l.offer].amount
    IN (l.op = "link" /\ l.session.sent) =>
         /\ (l.offer = NoVal \/ offers[l.offer].type = "trial") =>
              /\ l.session.trial_period_days = days
              /\ l.session.has_trial = (days # 0)
              /\ ~l.session.has_coupon
         /\ (l.offer # NoVal /\ offers[l.offer].type # "trial" /\ l.coupon # NoId) =>
              /\ ~l.session.has_trial
              /\ l.session.trial_period_days = 0

\* a session for the trial offer o2: fourteen days, where the tier has seven
C30_Witness ==
  /\ pc[1] = "done" /\ loc[1].op = "link" /\ loc[1].session.sent
  /\ loc[1].offer = "o2" /\ offers["o2"].type = "trial"
  /\ loc[1].session.trial_period_days = 14
  /\ tiers[loc[1].tier].trialDays = 7

\* C31: when the handlers of two subscription events for one member have both
\* answered, whatever the order their repository calls ran in, the member's
\* status, subscribed flag and tier are those of handling the two events one
\* after the other, in one of the two orders.
C31_SerializableWebhooks ==
  (/\ pc[1] = "done" /\ pc[2] = "done"
   /\ loc[1].op = "webhook" /\ loc[2].op = "webhook"
   /\ loc[1].event.customer = loc[2].event.customer) =>
    LET e1 == loc[1].event
        e2 == loc[2].event
    IN \/ \A m \in MemberIds :
            Entitlement(members[m]) = Entitlement(After(InterleaveMembers, <<e1, e2>>)[m])
       \/ \A m \in MemberIds :
            Entitlement(members[m]) = Entitlement(After(InterleaveMembers, <<e2, e1>>)[m])

\* C32: once subscription.cancelled has been handled for a member and left it
\* free, a payment.succeeded, payment.failed, invoice.payment_succeeded,
\* invoice.payment_failed, customer.created or customer.updated event handled
\* next leaves the member's status free.
C32_CancellationNotUndone ==
  [][\A m \in MemberIds :
       (/\ response.genuine /\ response.status = 200
        /\ response.type = "subscription.cancelled"
        /\ m \in LinkedMembers(response.customer)
        /\ members[m].status = "free"
        /\ response'.genuine
        /\ response'.type \in PaymentTypes \cup CustomerTypes) =>
         members'[m].status = "free"]_vars

\* C33: in a getPriceForTierCadence call that goes on to create a price, the
\* product createPriceForTierCadence resolved, under which the price is
\* created and its PriceLink row recorded, is the product whose PriceLink
\* rows the call scanned.
C33_ScanAndCreateSameProduct ==
  \A p \in Procs :
    (loc[p].op \in {"price", "link", "tier"} /\ pc[p] \in {"cp_create", "cp_add"}) =>
      loc[p].cproduct = loc[p].product

\* C34: an acknowledged subscription.created or subscription.cancelled event,
\* whichever of the handler's calls failed, leaves every member either as it
\* was or as the event leaves it when every call succeeds.
C34_HandlerAllOrNothing ==
  [][(/\ response'.genuine /\ response'.status = 200
      /\ response'.type \in {"subscription.created", "subscription.cancelled"}) =>
       \E ev \in SubscriptionEvents :
         /\ ev.type = response'.type /\ ev.customer = response'.customer
         /\ members' \in {members, RouteWebhookEvent(members, ev, NoFail).members}]_vars

\* C35: getDodoConnectTokenData returns credentials only when the session
\* holds a state stored by getDodoConnectOAuthUrl and the response carries
\* that very state; when the carried state differs from what the session
\* holds, none stored included, it fails with a no-permission error and
\* returns no credentials.
C35_ConnectStateCheck ==
  LET t == connect.token
  IN /\ t.outcome = "credentials" =>
          (t.stored.kind = "string" /\ t.carried = t.stored)
     /\ (t.outcome \in {"credentials", "NoPermissionError"} /\ t.carried # t.stored) =>
          (t.outcome = "NoPermissionError" /\ t.credentials = NoCredentials)

====
